---- MODULE Spec2Model ----
(***************************************************************************)
(* Verification model of the aws-voice-bot session protocol.               *)
(*                                                                         *)
(*   SpecServer   the Node server's per-connection handler                 *)
(*                (REALTIME_AWS_BOT/server-backend/src/index.ts)           *)
(*   SpecServerFair  the same, with every delivered event handled          *)
(*   SpecSessions several connections on the one server process            *)
(*   SpecCodec    float32ToInt16 and the playback inverse scaling          *)
(*   SpecPlayback the VoiceBotUI playback scheduler (playPcm24k...)        *)
(*   SpecCapture  the VoiceStreamer microphone pipeline                    *)
(*   SpecResponseAudio  the VoiceStreamer playback of response audio       *)
(*   SpecChat     the VoiceStreamer chat list                              *)
(*   SpecChatFair the same, with every final transcript answered           *)
(*   SpecLive     one call of runGeminiLiveTextTurn                        *)
(*   SpecLiveFair the same, with the call's own steps taken                *)
(*   SpecTurn     the turn-based VoiceBotUI connection and capture         *)
(*   SpecTurnFair the same, with every delivered event handled             *)
(*                                                                         *)
(* Every specification constrains all variables; the variables of the      *)
(* components a specification does not exercise stay at their initial      *)
(* values.                                                                 *)
(***************************************************************************)
EXTENDS Integers, Sequences, FiniteSets, TLC

VARIABLES
    \* ---- server, one connection (index.ts) ----
    readyState,       \* ws.readyState: "OPEN" or "CLOSED"
    recognizeStream,  \* 0 = null, else an index into streams
    streams,          \* every recognition stream this connection created
    sent,             \* messages handed to ws.send, in order
    pending,          \* "data" handlers suspended in await runGeminiTextThenAudio
    completed,        \* utterances whose "data" handler ran to its end
    uttCount,         \* number of "data" events that carried a transcript
    srvEvents,        \* number of external events handled (bounded)
    uncaught,         \* whether a handler threw and nothing caught it
    \* ---- PCM codec (float32ToInt16, playPcm24kFromBase64) ----
    float32,          \* the Float32Array handed to float32ToInt16
    int16,            \* the Int16Array it returned
    channelData,      \* the samples playback decoded from int16
    codecPc,          \* "captured", "encoded" or "decoded"
    \* ---- VoiceBotUI (client/src/components/VoiceBotUI.tsx) ----
    variant,          \* which VoiceBotUI is mounted: "continuous" or "turn"
    isListening,      \* React state
    isProcessing,     \* React state (turn-based variant only)
    starting,         \* where the pending startListening/startTurn call is
                      \* suspended: "none", "connecting" or "micWait"
    socketCount,      \* WebSockets created so far; the newest is socketCount
    openSockets,      \* the created sockets whose readyState is OPEN
    wsRef,            \* wsRef.current: 0 = null, else a socket
    currentTime,      \* audioCtx.currentTime of the output context
    audioContextOutRef, \* whether the output AudioContext exists
    playheadRef,      \* playheadRef.current
    frameCount,       \* binary frames received so far
    decoding,         \* frames suspended in await decodeAudioData
    scheduled,        \* source.start(startAt) calls, in call order
    \* ---- VoiceStreamer (REALTIME_AWS_BOT client component) ----
    vsMounted,        \* whether the component is mounted
    vsIsListening,    \* React state isListening
    vsRendered,       \* the isListening the handlers of the committed render
                      \* captured
    vsSockets,        \* readyState of every WebSocket created so far
    vsWsRef,          \* wsRef.current: 0 = null, else a socket
    vsCalls,          \* startListening calls: where each is suspended
    vsCaptures,       \* every capture (stream, context, processor) created
    vsProcessorRef,   \* processorRef.current: 0 = null, else a capture
    vsAudioContextRef, \* audioContextRef.current, likewise
    vsMediaStreamRef, \* mediaStreamRef.current, likewise
    vsOut,            \* what the client handed to ws.send, in order
    vsAudioSent,      \* audio frames sent so far (bounded)
    vsReleaseLog,     \* the release calls the last stopListening made, in
                      \* call order
    \* ---- server, several connections (index.ts) ----
    sessReady,        \* ws.readyState of every connection
    sessStream,       \* recognizeStream of every connection's closure: 0 or
                      \* an index into speechStreams
    sessSent,         \* messages handed to each connection's ws.send
    speechStreams,    \* every stream the shared SpeechClient created
    sessPending,      \* streams whose "data" handler awaits the chain
    sessEvents,       \* number of external events handled (bounded)
    \* ---- VoiceStreamer, response audio ----
    vspAudioContextOutRef, \* whether the output AudioContext exists
    vspCurrentTime,   \* audioCtx.currentTime of the output context
    vspReceived,      \* llmResponseAudio messages received so far
    vspStarted,       \* source.start() calls, in call order
    \* ---- VoiceBotUI, turn-based variant: connection and capture ----
    tbIsListening,    \* React state isListening
    tbIsProcessing,   \* React state isProcessing
    tbRendered,       \* the isListening and isProcessing the handlers of the
                      \* committed render captured
    tbSockets,        \* readyState of every WebSocket created so far
    tbWsRef,          \* wsRef.current: 0 = null, else a socket
    tbCalls,          \* startTurn calls: where each is suspended
    tbCaptures,       \* every capture (stream, context, processor) created
    tbProcessorRef,   \* processorRef.current: 0 = null, else a capture
    tbAudioContextRef, \* audioContextRef.current, likewise
    tbMediaStreamRef, \* mediaStreamRef.current, likewise
    tbOut,            \* the sockets "END_TURN" was sent on, in order
    \* ---- VoiceStreamer, chat list ----
    chatMessages,     \* React state messages
    chatInterim,      \* whether interimTranscript holds text
    chatFinals,       \* final transcripts with text received so far
    chatAwaiting,     \* utterances the server has not answered yet
    \* ---- runGeminiLiveTextTurn (llm/geminiLiveText.ts) ----
    livePc,           \* where the call is: "start", "connecting", "waiting",
                      \* "closing", "returned" or "threw"
    liveSession,      \* the live session: "none", "open", "errored", "closed"
    responseQueue,    \* responseQueue: turnComplete of every queued message
    liveTurns,        \* turns.length in handleTurn
    liveReceived      \* messages the session delivered so far (bounded)

srvVars == <<readyState, recognizeStream, streams, sent, pending, completed,
             uttCount, srvEvents, uncaught>>

codecVars == <<float32, int16, channelData, codecPc>>

uiVars == <<variant, isListening, isProcessing, starting, socketCount,
            openSockets, wsRef, currentTime, audioContextOutRef, playheadRef,
            frameCount, decoding, scheduled>>

vsVars == <<vsMounted, vsIsListening, vsRendered, vsSockets, vsWsRef, vsCalls,
            vsCaptures,
            vsProcessorRef, vsAudioContextRef, vsMediaStreamRef, vsOut,
            vsAudioSent, vsReleaseLog>>

sessVars == <<sessReady, sessStream, sessSent, speechStreams, sessPending,
              sessEvents>>

vspVars == <<vspAudioContextOutRef, vspCurrentTime, vspReceived, vspStarted>>

tbVars == <<tbIsListening, tbIsProcessing, tbRendered, tbSockets, tbWsRef,
            tbCalls, tbCaptures, tbProcessorRef, tbAudioContextRef,
            tbMediaStreamRef, tbOut>>

chatVars == <<chatMessages, chatInterim, chatFinals, chatAwaiting>>

liveVars == <<livePc, liveSession, responseQueue, liveTurns, liveReceived>>

vars == <<srvVars, codecVars, uiVars, vsVars, sessVars, vspVars, tbVars,
          chatVars, liveVars>>

\* what the actions of one component leave alone
nonSrvVars ==
    <<codecVars, uiVars, vsVars, sessVars, vspVars,
      tbVars, chatVars, liveVars>>
nonCodecVars ==
    <<srvVars, uiVars, vsVars, sessVars, vspVars,
      tbVars, chatVars, liveVars>>
nonUiVars ==
    <<srvVars, codecVars, vsVars, sessVars, vspVars,
      tbVars, chatVars, liveVars>>
nonVsVars ==
    <<srvVars, codecVars, uiVars, sessVars, vspVars,
      tbVars, chatVars, liveVars>>
nonSessVars ==
    <<srvVars, codecVars, uiVars, vsVars, vspVars,
      tbVars, chatVars, liveVars>>
nonVspVars ==
    <<srvVars, codecVars, uiVars, vsVars, sessVars,
      tbVars, chatVars, liveVars>>
nonTbVars ==
    <<srvVars, codecVars, uiVars, vsVars, sessVars,
      vspVars, chatVars, liveVars>>
nonChatVars ==
    <<srvVars, codecVars, uiVars, vsVars, sessVars,
      vspVars, tbVars, liveVars>>
nonLiveVars ==
    <<srvVars, codecVars, uiVars, vsVars, sessVars,
      vspVars, tbVars, chatVars>>

-----------------------------------------------------------------------------
(* Bounds *)

\* external events (client messages, recognizer events, socket events)
MaxSrvEvents == 4

\* samples per captured frame
MaxFrameLen == 2

\* how many neighbours of -1, -1/2, 0, 1/2 and 1 the fine sample grid holds
FineSpan == 2

\* binary frames a VoiceBotUI client receives
MaxFrames == 2

\* ticks of the output context's clock
MaxTime == 1

\* WebSockets a VoiceBotUI client creates
MaxSockets == 2

\* startListening calls of a VoiceStreamer client
MaxCalls == 2

\* audio frames a VoiceStreamer client sends
MaxAudio == 1

\* {type:"stop"} messages a VoiceStreamer client sends
MaxStops == 2

\* connections open on the server at once
MaxConns == 2

\* llmResponseAudio messages a VoiceStreamer client receives
MaxResponses == 3

\* ticks of the VoiceStreamer output context's clock
MaxPlayTime == 3

\* startTurn calls of a turn-based VoiceBotUI client
MaxTurnCalls == 2

\* "END_TURN" messages a turn-based VoiceBotUI client sends
MaxEndTurns == 2

\* final transcripts with text a VoiceStreamer client receives
MaxFinals == 3

\* messages a Gemini live session delivers
MaxLiveMessages == 4

\* external events the connections handle together
MaxSessEvents == 4

-----------------------------------------------------------------------------
(* Server: REALTIME_AWS_BOT/server-backend/src/index.ts *)

\* sampleRate values a `start` message may carry
SampleRates == {16000, 48000}

\* transcripts the recognizer may deliver, as sequences of characters
TranscriptTexts == { <<>>, <<" ">>, <<" ", "a">> }

RECURSIVE TrimStart(_)
TrimStart(s) == IF s # <<>> /\ Head(s) = " " THEN TrimStart(Tail(s)) ELSE s

RECURSIVE TrimEnd(_)
TrimEnd(s) ==
    IF s # <<>> /\ s[Len(s)] = " " THEN TrimEnd(SubSeq(s, 1, Len(s) - 1)) ELSE s

\* String.prototype.trim
Trim(s) == TrimEnd(TrimStart(s))

\* ServerToClientMessage; utt names the "data" event a message stems from
\* (0 for messages that stem from none)
ServerToClientMessage(type, message, isFinal, utt) ==
    [type |-> type, message |-> message, isFinal |-> isFinal, utt |-> utt]

InfoMsg(text)  == ServerToClientMessage("info", text, FALSE, 0)
ErrorMsg(text) == ServerToClientMessage("error", text, FALSE, 0)

\* sendJSON without its readyState test
sendJSON_NoStateTest(log, msg) == Append(log, msg)

\* sendJSON: the message goes out only while the socket is OPEN
sendJSON(log, msg) == IF readyState = "OPEN" THEN Append(log, msg) ELSE log

\* the session is Idle: no open recognition stream, no chain pending
Idle == recognizeStream = 0 /\ pending = {}

SetStatus(ss, i, st) == [ss EXCEPT ![i].status = st]

\* the languages the speech client module fixes
PRIMARY_LANGUAGE == "en-IN"
ALT_LANGUAGES == <<"hi-IN", "ta-IN", "kn-IN", "fr-FR">>

\* createStreamingRecognizeRequest: the config of the request
createStreamingRecognizeRequest(sampleRateHertz) ==
    [sampleRateHertz |-> sampleRateHertz,
     languageCode |-> PRIMARY_LANGUAGE,
     alternativeLanguageCodes |-> ALT_LANGUAGES]

\* startRecognitionStream without the destroy() of the stream it replaces
startRecognitionStream_NoDestroy(sampleRate) ==
    LET request == createStreamingRecognizeRequest(sampleRate)
    IN /\ streams' = Append(streams, [status |-> "live", request |-> request,
                                      writes |-> 0])
       /\ recognizeStream' = Len(streams) + 1
       /\ sent' = sendJSON(sent, InfoMsg("Recognition stream started"))

\* startRecognitionStream: an open stream is destroyed and replaced
startRecognitionStream(sampleRate) ==
    LET cleared == IF recognizeStream # 0
                   THEN SetStatus(streams, recognizeStream, "destroyed")
                   ELSE streams
        request == createStreamingRecognizeRequest(sampleRate)
    IN /\ streams' = Append(cleared, [status |-> "live", request |-> request,
                                      writes |-> 0])
       /\ recognizeStream' = Len(streams) + 1
       /\ sent' = sendJSON(sent, InfoMsg("Recognition stream started"))

\* stopRecognitionStream, had it left the variable pointing at the ended
\* stream
stopRecognitionStream_KeepsRef ==
    IF recognizeStream # 0
    THEN /\ streams' = SetStatus(streams, recognizeStream, "ended")
         /\ recognizeStream' = recognizeStream
         /\ sent' = sendJSON(sent, InfoMsg("Recognition stream stopped"))
    ELSE UNCHANGED <<streams, recognizeStream, sent>>

\* stopRecognitionStream
stopRecognitionStream ==
    IF recognizeStream # 0
    THEN /\ streams' = SetStatus(streams, recognizeStream, "ended")
         /\ recognizeStream' = 0
         /\ sent' = sendJSON(sent, InfoMsg("Recognition stream stopped"))
    ELSE UNCHANGED <<streams, recognizeStream, sent>>

Receiving == readyState = "OPEN" /\ srvEvents < MaxSrvEvents

\* the language choices of the VoiceStreamer client that the model draws from
SelectedLangs == {"auto", "hi-IN"}

\* the {type:"start"} message startListening of VoiceStreamer builds
StartMessage(sampleRate, selectedLang) ==
    IF selectedLang = "hi-IN"
    THEN [type |-> "start", sampleRate |-> sampleRate,
          languageCode |-> "hi-IN", altLanguages |-> <<"en-IN">>]
    ELSE [type |-> "start", sampleRate |-> sampleRate,
          languageCode |-> "en-IN",
          altLanguages |-> <<"hi-IN", "ta-IN", "kn-IN", "fr-FR">>]

StartMessages ==
    {StartMessage(sr, lang) : sr \in SampleRates, lang \in SelectedLangs}

\* ws.on("message"), text frame {type:"start", sampleRate, ...}
RecvStart(data) ==
    /\ Receiving
    /\ srvEvents' = srvEvents + 1
    /\ startRecognitionStream(data.sampleRate)
    /\ UNCHANGED <<readyState, pending, completed, uttCount>>
    /\ UNCHANGED uncaught
    /\ UNCHANGED nonSrvVars

\* ws.on("message"), text frame {type:"stop"}
RecvStop ==
    /\ Receiving
    /\ srvEvents' = srvEvents + 1
    /\ stopRecognitionStream
    /\ UNCHANGED <<readyState, pending, completed, uttCount>>
    /\ UNCHANGED uncaught
    /\ UNCHANGED nonSrvVars

\* ws.on("message"), text frame {type:"ping"}
RecvPing ==
    /\ Receiving
    /\ srvEvents' = srvEvents + 1
    /\ sent' = sendJSON(sent, InfoMsg("pong"))
    /\ UNCHANGED <<readyState, recognizeStream, streams, pending, completed,
                   uttCount>>
    /\ UNCHANGED uncaught
    /\ UNCHANGED nonSrvVars

\* text frames that are not JSON: the end-of-turn sentinels of the VoiceBotUI
\* clients and a truncated object
NonJSONTexts == {"END_TURN", "AUDIO_STREAM_END", "{"}

\* ws.on("message"), text frame that JSON.parse rejects
RecvInvalidJSON(text) ==
    /\ Receiving
    /\ text \in NonJSONTexts \cup {"pcm"}
    /\ srvEvents' = srvEvents + 1
    /\ sent' = sendJSON(sent, ErrorMsg("Invalid JSON message"))
    /\ UNCHANGED <<readyState, recognizeStream, streams, pending, completed,
                   uttCount>>
    /\ UNCHANGED uncaught
    /\ UNCHANGED nonSrvVars

\* ws.on("message"), text frame holding a JSON object whose type is none of
\* start, stop, ping: no branch is taken
RecvUnknownType ==
    /\ Receiving
    /\ srvEvents' = srvEvents + 1
    /\ UNCHANGED <<readyState, recognizeStream, streams, sent, pending,
                   completed, uttCount>>
    /\ UNCHANGED uncaught
    /\ UNCHANGED nonSrvVars

\* ws.on("message"), text frame "null": JSON.parse returns null and reading
\* `data.type` throws a TypeError after the try block.  No caller catches it
\* and the process installs no uncaughtException handler, so the process
\* exits: the socket closes, the streams and the suspended handlers die.
RecvJSONNull ==
    /\ Receiving
    /\ srvEvents' = srvEvents + 1
    /\ uncaught' = TRUE
    /\ readyState' = "CLOSED"
    /\ recognizeStream' = 0
    /\ streams' = [i \in 1..Len(streams) |->
                      [streams[i] EXCEPT !.status = "destroyed"]]
    /\ pending' = {}
    /\ UNCHANGED <<sent, completed, uttCount>>
    /\ UNCHANGED nonSrvVars

\* the binary branch without its `if (!recognizeStream) return`: the frame
\* goes to the stream created last
RecvBinary_NoNullTest ==
    /\ Receiving
    /\ srvEvents' = srvEvents + 1
    /\ streams' = IF streams = <<>> THEN streams
                  ELSE [streams EXCEPT ![Len(streams)].writes = @ + 1]
    /\ UNCHANGED <<readyState, recognizeStream, sent, pending, completed,
                   uttCount>>
    /\ UNCHANGED uncaught
    /\ UNCHANGED nonSrvVars

\* ws.on("message"), binary frame
RecvBinary ==
    /\ Receiving
    /\ srvEvents' = srvEvents + 1
    /\ streams' = IF recognizeStream = 0 THEN streams
                  ELSE [streams EXCEPT ![recognizeStream].writes = @ + 1]
    /\ UNCHANGED <<readyState, recognizeStream, sent, pending, completed,
                   uttCount>>
    /\ UNCHANGED uncaught
    /\ UNCHANGED nonSrvVars

\* what a frame carries: the text of a JSON object, the text "null", or
\* bytes that are not JSON ("pcm" stands for audio samples)
ObjectPayloads ==
    {[syntax |-> "object", value |-> m] :
        m \in StartMessages \cup {[type |-> "stop"], [type |-> "ping"],
                                  [type |-> "hello"]}}

\* the frames a client may send: any text, and binary frames that hold
\* audio or the bytes of a control message
Frames ==
    {[isBinary |-> FALSE, data |-> d] :
        d \in ObjectPayloads \cup {[syntax |-> "null"]}
                 \cup {[syntax |-> "invalid", text |-> t] : t \in NonJSONTexts}}
    \cup {[isBinary |-> TRUE, data |-> d] :
             d \in {[syntax |-> "invalid", text |-> "pcm"],
                    [syntax |-> "object", value |-> [type |-> "stop"]],
                    [syntax |-> "object",
                     value |-> StartMessage(16000, "auto")]}}

\* the test, had it looked at whether the content parses as JSON
IsControl_ByContent(frame) == frame.data.syntax # "invalid"

\* `if (!isBinary)`
IsControl(frame) == ~frame.isBinary

\* ws.on("message")
OnMessage(frame) ==
    IF IsControl(frame)
    THEN CASE frame.data.syntax = "invalid" ->
                  RecvInvalidJSON(frame.data.text)
           [] frame.data.syntax = "null" -> RecvJSONNull
           [] OTHER ->
                  LET data == frame.data.value
                  IN CASE data.type = "start" -> RecvStart(data)
                       [] data.type = "stop" -> RecvStop
                       [] data.type = "ping" -> RecvPing
                       [] OTHER -> RecvUnknownType
    ELSE RecvBinary

\* ws.on("close")
WsClose ==
    /\ readyState = "OPEN"
    /\ readyState' = "CLOSED"
    /\ srvEvents' = srvEvents
    /\ IF recognizeStream # 0
       THEN /\ streams' = SetStatus(streams, recognizeStream, "ended")
            /\ recognizeStream' = 0
            /\ sent' = sent   \* sendJSON after close: readyState is not OPEN
       ELSE UNCHANGED <<streams, recognizeStream, sent>>
    /\ UNCHANGED <<pending, completed, uttCount>>
    /\ UNCHANGED uncaught
    /\ UNCHANGED nonSrvVars

\* ws.on("error"): the socket is still OPEN while the handler runs
WsError ==
    /\ Receiving
    /\ srvEvents' = srvEvents + 1
    /\ stopRecognitionStream
    /\ UNCHANGED <<readyState, pending, completed, uttCount>>
    /\ UNCHANGED uncaught
    /\ UNCHANGED nonSrvVars

\* streams that can still deliver recognizer events: the open one, and one
\* that was end()ed (half-closed) and is flushing its last results
Delivering(i) == streams[i].status \in {"live", "ended"}

\* the same handler, except that a final transcript is not relayed to the
\* client before the chain is started
RecognizerData_FinalNotRelayed(i, isFinal, transcript) ==
    /\ srvEvents < MaxSrvEvents
    /\ i \in 1..Len(streams) /\ Delivering(i)
    /\ srvEvents' = srvEvents + 1
    /\ uttCount' = uttCount + 1
    /\ sent' = IF isFinal THEN sent
               ELSE sendJSON(sent,
                        ServerToClientMessage("transcript", transcript, isFinal,
                                              uttCount + 1))
    /\ IF isFinal /\ Trim(transcript) # <<>>
       THEN /\ pending' = pending \cup {uttCount + 1}
            /\ completed' = completed
       ELSE /\ pending' = pending
            /\ completed' = completed \cup {uttCount + 1}
    /\ UNCHANGED <<readyState, recognizeStream, streams>>
    /\ UNCHANGED uncaught
    /\ UNCHANGED nonSrvVars

\* the same handler, except that every final transcript starts the chain,
\* blank or not
RecognizerData_NoTrimTest(i, isFinal, transcript) ==
    /\ srvEvents < MaxSrvEvents
    /\ i \in 1..Len(streams) /\ Delivering(i)
    /\ srvEvents' = srvEvents + 1
    /\ uttCount' = uttCount + 1
    /\ sent' = sendJSON(sent,
           ServerToClientMessage("transcript", transcript, isFinal,
                                 uttCount + 1))
    /\ IF isFinal
       THEN /\ pending' = pending \cup {uttCount + 1}
            /\ completed' = completed
       ELSE /\ pending' = pending
            /\ completed' = completed \cup {uttCount + 1}
    /\ UNCHANGED <<readyState, recognizeStream, streams>>
    /\ UNCHANGED uncaught
    /\ UNCHANGED nonSrvVars

\* recognizeStream.on("data"), up to the await (or to the end when there is
\* nothing to generate).  An event without results or alternatives returns
\* at once and changes nothing.
RecognizerData(i, isFinal, transcript) ==
    /\ srvEvents < MaxSrvEvents
    /\ i \in 1..Len(streams) /\ Delivering(i)
    /\ srvEvents' = srvEvents + 1
    /\ uttCount' = uttCount + 1
    /\ sent' = sendJSON(sent,
           ServerToClientMessage("transcript", transcript, isFinal,
                                 uttCount + 1))
    /\ IF isFinal /\ Trim(transcript) # <<>>
       THEN /\ pending' = pending \cup {uttCount + 1}
            /\ completed' = completed
       ELSE /\ pending' = pending
            /\ completed' = completed \cup {uttCount + 1}
    /\ UNCHANGED <<readyState, recognizeStream, streams>>
    /\ UNCHANGED uncaught
    /\ UNCHANGED nonSrvVars

\* recognizeStream.on("error")
RecognizerError(i) ==
    /\ srvEvents < MaxSrvEvents
    /\ i \in 1..Len(streams) /\ Delivering(i)
    /\ srvEvents' = srvEvents + 1
    /\ streams' = SetStatus(streams, i, "errored")
    /\ sent' = sendJSON(sent, ErrorMsg("Speech API error"))
    /\ UNCHANGED <<readyState, recognizeStream, pending, completed, uttCount>>
    /\ UNCHANGED uncaught
    /\ UNCHANGED nonSrvVars

\* what the resumed handler sends when runGeminiTextThenAudio resolves
ResponseMessages(log, u, hasAudio) ==
    LET withText == sendJSON(log,
                        ServerToClientMessage("llmResponse", "answer", FALSE, u))
    IN IF hasAudio
       THEN sendJSON(withText,
                ServerToClientMessage("llmResponseAudio", "pcm", FALSE, u))
       ELSE withText

\* runGeminiTextThenAudio resolves; the handler of utterance u resumes
GeminiResolve(u, hasAudio) ==
    /\ u \in pending
    /\ pending' = pending \ {u}
    /\ completed' = completed \cup {u}
    /\ sent' = ResponseMessages(sent, u, hasAudio)
    /\ UNCHANGED <<readyState, recognizeStream, streams, uttCount, srvEvents>>
    /\ UNCHANGED uncaught
    /\ UNCHANGED nonSrvVars

\* the same continuation, had the catch only logged the failure
GeminiReject_Silent(u) ==
    /\ u \in pending
    /\ pending' = pending \ {u}
    /\ completed' = completed \cup {u}
    /\ sent' = sent
    /\ UNCHANGED <<readyState, recognizeStream, streams, uttCount, srvEvents>>
    /\ UNCHANGED uncaught
    /\ UNCHANGED nonSrvVars

\* runGeminiTextThenAudio rejects; the handler's catch runs
GeminiReject(u) ==
    /\ u \in pending
    /\ pending' = pending \ {u}
    /\ completed' = completed \cup {u}
    /\ sent' = sendJSON(sent,
           ServerToClientMessage("error", "LLM error", FALSE, u))
    /\ UNCHANGED <<readyState, recognizeStream, streams, uttCount, srvEvents>>
    /\ UNCHANGED uncaught
    /\ UNCHANGED nonSrvVars

\* the server before any connection event
ServerIdle ==
    /\ readyState = "OPEN"
    /\ recognizeStream = 0
    /\ streams = <<>>
    /\ sent = <<>>
    /\ pending = {}
    /\ completed = {}
    /\ uttCount = 0
    /\ srvEvents = 0
    /\ uncaught = FALSE

\* the codec before any frame was captured
CodecIdle ==
    /\ float32 = <<>>
    /\ int16 = <<>>
    /\ channelData = <<>>
    /\ codecPc = "captured"

\* VoiceBotUI as mounted, before any click
UiIdle ==
    /\ isListening = FALSE
    /\ isProcessing = FALSE
    /\ starting = "none"
    /\ socketCount = 0
    /\ openSockets = {}
    /\ wsRef = 0
    /\ currentTime = 0
    /\ audioContextOutRef = FALSE
    /\ playheadRef = 0
    /\ frameCount = 0
    /\ decoding = {}
    /\ scheduled = <<>>

\* VoiceStreamer as mounted, before any click
VsIdle ==
    /\ vsMounted = TRUE
    /\ vsIsListening = FALSE
    /\ vsRendered = FALSE
    /\ vsSockets = <<>>
    /\ vsWsRef = 0
    /\ vsCalls = <<>>
    /\ vsCaptures = <<>>
    /\ vsProcessorRef = 0
    /\ vsAudioContextRef = 0
    /\ vsMediaStreamRef = 0
    /\ vsOut = <<>>
    /\ vsAudioSent = 0
    /\ vsReleaseLog = <<>>

\* the server right after MaxConns clients connected
SessIdle ==
    /\ sessReady = [c \in 1..MaxConns |-> "OPEN"]
    /\ sessStream = [c \in 1..MaxConns |-> 0]
    /\ sessSent = [c \in 1..MaxConns |-> <<>>]
    /\ speechStreams = <<>>
    /\ sessPending = {}
    /\ sessEvents = 0

\* VoiceStreamer before any response audio arrived
VspIdle ==
    /\ vspAudioContextOutRef = FALSE
    /\ vspCurrentTime = 0
    /\ vspReceived = 0
    /\ vspStarted = <<>>

\* turn-based VoiceBotUI as mounted, before any click
TbIdle ==
    /\ tbIsListening = FALSE
    /\ tbIsProcessing = FALSE
    /\ tbRendered = [isListening |-> FALSE, isProcessing |-> FALSE]
    /\ tbSockets = <<>>
    /\ tbWsRef = 0
    /\ tbCalls = <<>>
    /\ tbCaptures = <<>>
    /\ tbProcessorRef = 0
    /\ tbAudioContextRef = 0
    /\ tbMediaStreamRef = 0
    /\ tbOut = <<>>

\* the VoiceStreamer chat list as mounted
ChatIdle ==
    /\ chatMessages = <<>>
    /\ chatInterim = FALSE
    /\ chatFinals = 0
    /\ chatAwaiting = {}

\* before runGeminiLiveTextTurn is called
LiveIdle ==
    /\ livePc = "start"
    /\ liveSession = "none"
    /\ responseQueue = <<>>
    /\ liveTurns = 0
    /\ liveReceived = 0

InitServer ==
    /\ ServerIdle /\ CodecIdle /\ variant = "turn" /\ UiIdle /\ VsIdle
    /\ SessIdle /\ VspIdle /\ TbIdle /\ ChatIdle /\ LiveIdle

NextServer ==
    \/ \E frame \in Frames : OnMessage(frame)
    \/ WsClose
    \/ WsError
    \/ \E i \in 1..Len(streams), f \in BOOLEAN, t \in TranscriptTexts :
           RecognizerData(i, f, t)
    \/ \E i \in 1..Len(streams) : RecognizerError(i)
    \/ \E u \in pending, a \in BOOLEAN : GeminiResolve(u, a)
    \/ \E u \in pending : GeminiReject(u)

SpecServer == InitServer /\ [][NextServer]_vars

\* the handlers of the events that reach the connection.  The event loop runs
\* the handler of every event that is delivered; nothing makes the client
\* close the socket, and nothing makes runGeminiTextThenAudio settle.
ServerHandlers ==
    \/ \E frame \in Frames : OnMessage(frame)
    \/ WsError
    \/ \E i \in 1..Len(streams), f \in BOOLEAN, t \in TranscriptTexts :
           RecognizerData(i, f, t)
    \/ \E i \in 1..Len(streams) : RecognizerError(i)

SpecServerFair == SpecServer /\ WF_vars(ServerHandlers)

-----------------------------------------------------------------------------
(* PCM codec: float32ToInt16 (client/src/components/VoiceBotUI.tsx and       *)
(* VoiceStreamer) and the inverse scaling of playPcm24kFromBase64.           *)
(* A sample is the exact rational num/den; den = 0 stands for NaN.  Every    *)
(* sample below is a float32 value, and the products the code forms are      *)
(* exact in double precision, so rational arithmetic is what the code        *)
(* computes.                                                                 *)

\* 0x8000, the scale of negative samples
PcmNegScale == 32768

\* 0x7fff, the scale of non-negative samples
PcmPosScale == 32767

\* the denominator of the fine grid: half a quantization step
FineDen == 2 * PcmNegScale

NaN == [num |-> 0, den |-> 0]

\* quarter steps from -2 to 2: in range and out of range
CoarseSamples == {[num |-> n, den |-> 4] : n \in -8..8}

FineNums ==
    UNION {{c - k, k - c} : k \in 1..FineSpan,
                            c \in {0, FineDen \div 2, FineDen}}
      \cup {(FineDen \div 2) + k : k \in 0..FineSpan}
      \cup {-((FineDen \div 2) + k) : k \in 0..FineSpan}

FineSamples == {[num |-> n, den |-> FineDen] : n \in FineNums}

Samples == CoarseSamples \cup FineSamples \cup {NaN}

IsNaN(x) == x.den = 0

\* x < 0 (false for NaN)
IsNegative(x) == x.den # 0 /\ x.num < 0

\* Math.max(-1, Math.min(1, x)); NaN propagates
Clamp(x) ==
    IF IsNaN(x) THEN x
    ELSE IF x.num > x.den THEN [num |-> 1, den |-> 1]
    ELSE IF x.num < -x.den THEN [num |-> -1, den |-> 1]
    ELSE x

\* the integer part of a/d, rounded toward zero (d > 0)
TruncDiv(a, d) == IF a >= 0 THEN a \div d ELSE (a + d - 1) \div d

\* the conversion an Int16Array store applies: NaN becomes 0, the value is
\* truncated and wrapped modulo 2^16 into [-32768, 32767]
ToInt16(x) ==
    IF IsNaN(x) THEN 0
    ELSE ((TruncDiv(x.num, x.den) + 32768) % 65536) - 32768

\* x * k for an integer k
Times(x, k) == [num |-> x.num * k, den |-> x.den]

\* one iteration of the loop, with no clamp
QuantizeSample_NoClamp(x) ==
    ToInt16(IF IsNegative(x) THEN Times(x, PcmNegScale)
                             ELSE Times(x, PcmPosScale))

\* one iteration of the loop, with 0x7fff as the scale of both signs
QuantizeSample_SymmetricScale(x) ==
    LET s == Clamp(x)
    IN ToInt16(Times(s, PcmPosScale))

\* one iteration of the loop of float32ToInt16
QuantizeSample(x) ==
    LET s == Clamp(x)
    IN ToInt16(IF IsNegative(s) THEN Times(s, PcmNegScale)
                                ELSE Times(s, PcmPosScale))

float32ToInt16(f) == [i \in 1..Len(f) |-> QuantizeSample(f[i])]

\* channelData[i] = sample / 32768
PlaybackSample(q) == [num |-> q, den |-> PcmNegScale]

RECURSIVE SeqsUpTo(_, _)
SeqsUpTo(S, n) ==
    IF n = 0 THEN {<<>>}
    ELSE LET shorter == SeqsUpTo(S, n - 1)
         IN shorter \cup {Append(q, x) : q \in shorter, x \in S}

InitCodec ==
    /\ float32 \in SeqsUpTo(Samples, MaxFrameLen)
    /\ int16 = <<>>
    /\ channelData = <<>>
    /\ codecPc = "captured"
    /\ ServerIdle
    /\ variant = "turn"
    /\ UiIdle
    /\ VsIdle
    /\ SessIdle
    /\ VspIdle
    /\ TbIdle
    /\ ChatIdle
    /\ LiveIdle

\* processor.onaudioprocess: const pcm16 = float32ToInt16(input)
Encode ==
    /\ codecPc = "captured"
    /\ int16' = float32ToInt16(float32)
    /\ codecPc' = "encoded"
    /\ UNCHANGED <<float32, channelData>>
    /\ UNCHANGED nonCodecVars

\* playPcm24kFromBase64: the loop filling channelData
Decode ==
    /\ codecPc = "encoded"
    /\ channelData' = [i \in 1..Len(int16) |-> PlaybackSample(int16[i])]
    /\ codecPc' = "decoded"
    /\ UNCHANGED <<float32, int16>>
    /\ UNCHANGED nonCodecVars

NextCodec == Encode \/ Decode

SpecCodec == InitCodec /\ [][NextCodec]_vars

-----------------------------------------------------------------------------
(* VoiceBotUI: client/src/components/VoiceBotUI.tsx.  The file holds two     *)
(* variants of the component: the continuous one (lines 1-579) and the       *)
(* turn-based one (lines 580-1104); `variant` says which one is mounted.     *)
(* This part follows the connection and the playback scheduler; at most one  *)
(* startListening/startTurn call is in flight.                               *)

\* audioBuffer.duration of a decoded frame, in ticks
Durations == {1}

\* ensureOutputAudioContext with its test inverted: the playhead is zeroed
\* when the context already exists
ensureOutputAudioContext_GuardInverted ==
    IF audioContextOutRef THEN 0 ELSE playheadRef

\* ensureOutputAudioContext: the playhead after the call
ensureOutputAudioContext == IF audioContextOutRef THEN playheadRef ELSE 0

\* const startAt = playheadRef.current > now ? playheadRef.current : now
StartAt(now, playhead) == IF playhead > now THEN playhead ELSE now

\* continuous: handleMicToggle -> startListening, up to the first await;
\* connectWebSocket resolves at once with an open wsRef.current
LiveStartListening ==
    /\ variant = "continuous"
    /\ ~isListening /\ starting = "none"
    /\ IF wsRef # 0 /\ wsRef \in openSockets
       THEN /\ starting' = "micWait"
            /\ socketCount' = socketCount
       ELSE /\ socketCount < MaxSockets
            /\ socketCount' = socketCount + 1
            /\ starting' = "connecting"
    /\ UNCHANGED <<variant, isListening, isProcessing, openSockets, wsRef,
                   currentTime, audioContextOutRef, playheadRef, frameCount,
                   decoding, scheduled>>
    /\ UNCHANGED nonUiVars

\* continuous: ws.onopen, and startListening resumed up to getUserMedia
LiveOnOpen ==
    /\ variant = "continuous"
    /\ starting = "connecting"
    /\ openSockets' = openSockets \cup {socketCount}
    /\ wsRef' = socketCount
    /\ audioContextOutRef' = TRUE
    /\ playheadRef' = currentTime
    /\ starting' = "micWait"
    /\ UNCHANGED <<variant, isListening, isProcessing, socketCount,
                   currentTime, frameCount, decoding, scheduled>>
    /\ UNCHANGED nonUiVars

\* turn-based: handleMicToggle -> startTurn, up to the await of the open
TurnStartTurn ==
    /\ variant = "turn"
    /\ ~isListening /\ ~isProcessing /\ starting = "none"
    /\ socketCount < MaxSockets
    /\ socketCount' = socketCount + 1
    /\ starting' = "connecting"
    /\ UNCHANGED <<variant, isListening, isProcessing, openSockets, wsRef,
                   currentTime, audioContextOutRef, playheadRef, frameCount,
                   decoding, scheduled>>
    /\ UNCHANGED nonUiVars

\* turn-based: ws.onopen, and startTurn resumed up to getUserMedia
TurnOnOpen ==
    /\ variant = "turn"
    /\ starting = "connecting"
    /\ openSockets' = openSockets \cup {socketCount}
    /\ wsRef' = socketCount
    /\ starting' = "micWait"
    /\ UNCHANGED <<variant, isListening, isProcessing, socketCount,
                   currentTime, audioContextOutRef, playheadRef, frameCount,
                   decoding, scheduled>>
    /\ UNCHANGED nonUiVars

\* ws.onerror while connecting: the promise rejects, the catch runs
ConnectError ==
    /\ starting = "connecting"
    /\ starting' = "none"
    /\ UNCHANGED <<variant, isListening, isProcessing, socketCount,
                   openSockets, wsRef, currentTime, audioContextOutRef,
                   playheadRef, frameCount, decoding, scheduled>>
    /\ UNCHANGED nonUiVars

\* getUserMedia resolves; the call runs to its end.  The turn-based variant
\* resets the playhead here.
MicGranted ==
    /\ starting = "micWait"
    /\ starting' = "none"
    /\ isListening' = TRUE
    /\ IF variant = "turn"
       THEN /\ audioContextOutRef' = TRUE
            /\ playheadRef' = currentTime
       ELSE UNCHANGED <<audioContextOutRef, playheadRef>>
    /\ UNCHANGED <<variant, isProcessing, socketCount, openSockets, wsRef,
                   currentTime, frameCount, decoding, scheduled>>
    /\ UNCHANGED nonUiVars

\* getUserMedia rejects; the catch runs
MicDenied ==
    /\ starting = "micWait"
    /\ starting' = "none"
    /\ UNCHANGED <<variant, isListening, isProcessing, socketCount,
                   openSockets, wsRef, currentTime, audioContextOutRef,
                   playheadRef, frameCount, decoding, scheduled>>
    /\ UNCHANGED nonUiVars

\* handleMicToggle -> stopListening
StopListening ==
    /\ isListening
    /\ isListening' = FALSE
    /\ isProcessing' = (variant = "turn")
    /\ UNCHANGED <<variant, starting, socketCount, openSockets, wsRef,
                   currentTime, audioContextOutRef, playheadRef, frameCount,
                   decoding, scheduled>>
    /\ UNCHANGED nonUiVars

\* turn-based: ws.onmessage with "RESPONSE_COMPLETE" or "ERROR"
TurnResponseComplete ==
    /\ variant = "turn"
    /\ openSockets # {}
    /\ isProcessing
    /\ isProcessing' = FALSE
    /\ UNCHANGED <<variant, isListening, starting, socketCount, openSockets,
                   wsRef, currentTime, audioContextOutRef, playheadRef,
                   frameCount, decoding, scheduled>>
    /\ UNCHANGED nonUiVars

\* ws.onclose of socket s.  The turn-based handler tests the isListening its
\* startTurn call captured, which is false.
SocketClose(s) ==
    /\ s \in openSockets
    /\ openSockets' = openSockets \ {s}
    /\ wsRef' = 0
    /\ UNCHANGED <<variant, isListening, isProcessing, starting, socketCount,
                   currentTime, audioContextOutRef, playheadRef, frameCount,
                   decoding, scheduled>>
    /\ UNCHANGED nonUiVars

\* ws.onmessage with a binary frame on socket s: playPcm24kFromArrayBuffer up
\* to await decodeAudioData
FrameArrives(s, d) ==
    /\ s \in openSockets
    /\ frameCount < MaxFrames
    /\ frameCount' = frameCount + 1
    /\ playheadRef' = ensureOutputAudioContext
    /\ audioContextOutRef' = TRUE
    /\ decoding' = decoding \cup
           {[frame |-> frameCount + 1, conn |-> s, duration |-> d]}
    /\ UNCHANGED <<variant, isListening, isProcessing, starting, socketCount,
                   openSockets, wsRef, currentTime, scheduled>>
    /\ UNCHANGED nonUiVars

\* decodeAudioData resolves for frame f: the rest of playPcm24kFromArrayBuffer
DecodeDone(f) ==
    /\ f \in decoding
    /\ decoding' = decoding \ {f}
    /\ LET startAt == StartAt(currentTime, playheadRef)
       IN /\ scheduled' = Append(scheduled,
                 [frame |-> f.frame, conn |-> f.conn, startAt |-> startAt,
                  duration |-> f.duration])
          /\ playheadRef' = startAt + f.duration
    /\ UNCHANGED <<variant, isListening, isProcessing, starting, socketCount,
                   openSockets, wsRef, currentTime, audioContextOutRef,
                   frameCount>>
    /\ UNCHANGED nonUiVars

\* the same catch, had the playhead been advanced before the await
DecodeFail_PlayheadAdvanced(f) ==
    /\ f \in decoding
    /\ decoding' = decoding \ {f}
    /\ playheadRef' = StartAt(currentTime, playheadRef) + f.duration
    /\ UNCHANGED <<variant, isListening, isProcessing, starting, socketCount,
                   openSockets, wsRef, currentTime, audioContextOutRef,
                   frameCount, scheduled>>
    /\ UNCHANGED nonUiVars

\* decodeAudioData rejects for frame f: the catch logs and drops the frame
DecodeFail(f) ==
    /\ f \in decoding
    /\ decoding' = decoding \ {f}
    /\ UNCHANGED <<variant, isListening, isProcessing, starting, socketCount,
                   openSockets, wsRef, currentTime, audioContextOutRef,
                   playheadRef, frameCount, scheduled>>
    /\ UNCHANGED nonUiVars

\* the output context's clock advances
Tick ==
    /\ currentTime < MaxTime
    /\ currentTime' = currentTime + 1
    /\ UNCHANGED <<variant, isListening, isProcessing, starting, socketCount,
                   openSockets, wsRef, audioContextOutRef, playheadRef,
                   frameCount, decoding, scheduled>>
    /\ UNCHANGED nonUiVars

InitPlayback ==
    /\ variant \in {"continuous", "turn"}
    /\ UiIdle
    /\ ServerIdle
    /\ CodecIdle
    /\ VsIdle
    /\ SessIdle
    /\ VspIdle
    /\ TbIdle
    /\ ChatIdle
    /\ LiveIdle

NextPlayback ==
    \/ LiveStartListening
    \/ LiveOnOpen
    \/ TurnStartTurn
    \/ TurnOnOpen
    \/ ConnectError
    \/ MicGranted
    \/ MicDenied
    \/ StopListening
    \/ TurnResponseComplete
    \/ \E s \in openSockets : SocketClose(s)
    \/ \E s \in openSockets, d \in Durations : FrameArrives(s, d)
    \/ \E f \in decoding : DecodeDone(f)
    \/ \E f \in decoding : DecodeFail(f)
    \/ Tick

SpecPlayback == InitPlayback /\ [][NextPlayback]_vars

-----------------------------------------------------------------------------
(* VoiceStreamer: the client component of REALTIME_AWS_BOT.  Every call of   *)
(* startListening is followed on its own: a click during the await of the    *)
(* connection or of getUserMedia still sees isListening = false and starts   *)
(* another call.  A handler tests the isListening of the render that made    *)
(* it (vsRendered); setIsListening takes effect on the handlers at the next  *)
(* committed render (VsRender).                                              *)

VsOpen(s) == s # 0 /\ vsSockets[s] = "OPEN"

\* ws.send(x) on socket s: a socket that is not OPEN discards the data
VsSend(log, s, kind) ==
    IF VsOpen(s) THEN Append(log, [sock |-> s, kind |-> kind]) ELSE log

\* onClick = startListening, up to its first await
VsStartListening ==
    /\ vsMounted
    /\ ~vsRendered
    /\ Len(vsCalls) < MaxCalls
    /\ IF VsOpen(vsWsRef)
       THEN /\ vsCalls' = Append(vsCalls,
                   [pc |-> "micWait", ws |-> vsWsRef, stopped |-> FALSE])
            /\ vsSockets' = vsSockets
       ELSE /\ vsSockets' = Append(vsSockets, "CONNECTING")
            /\ vsCalls' = Append(vsCalls,
                   [pc |-> "connecting", ws |-> Len(vsSockets) + 1,
                    stopped |-> FALSE])
    /\ UNCHANGED <<vsMounted, vsIsListening, vsRendered,
                   vsWsRef, vsCaptures, vsProcessorRef,
                   vsAudioContextRef, vsMediaStreamRef, vsOut, vsAudioSent>>
    /\ UNCHANGED vsReleaseLog
    /\ UNCHANGED nonVsVars

\* ws.onopen of the socket call c waits for; the call resumes up to
\* getUserMedia
VsOnOpen(c) ==
    /\ vsCalls[c].pc = "connecting"
    /\ vsSockets' = [vsSockets EXCEPT ![vsCalls[c].ws] = "OPEN"]
    /\ vsWsRef' = vsCalls[c].ws
    /\ vsCalls' = [vsCalls EXCEPT ![c].pc = "micWait"]
    /\ UNCHANGED <<vsMounted, vsIsListening, vsRendered,
                   vsCaptures, vsProcessorRef,
                   vsAudioContextRef, vsMediaStreamRef, vsOut, vsAudioSent>>
    /\ UNCHANGED vsReleaseLog
    /\ UNCHANGED nonVsVars

\* ws.onerror and ws.onclose of the socket call c waits for; the call's catch
\* runs
VsConnectError(c) ==
    /\ vsCalls[c].pc = "connecting"
    /\ vsSockets' = [vsSockets EXCEPT ![vsCalls[c].ws] = "CLOSED"]
    /\ vsWsRef' = 0
    /\ vsCalls' = [vsCalls EXCEPT ![c].pc = "done"]
    /\ UNCHANGED <<vsMounted, vsIsListening, vsRendered,
                   vsCaptures, vsProcessorRef,
                   vsAudioContextRef, vsMediaStreamRef, vsOut, vsAudioSent>>
    /\ UNCHANGED vsReleaseLog
    /\ UNCHANGED nonVsVars

\* getUserMedia resolves for call c; the call runs to its end
VsMicGranted(c) ==
    /\ vsCalls[c].pc = "micWait"
    /\ vsCalls' = [vsCalls EXCEPT ![c].pc = "done"]
    /\ vsCaptures' = Append(vsCaptures,
           [ws |-> vsCalls[c].ws, processing |-> TRUE, contextOpen |-> TRUE,
            tracksLive |-> TRUE])
    /\ vsAudioContextRef' = Len(vsCaptures) + 1
    /\ vsMediaStreamRef' = Len(vsCaptures) + 1
    /\ vsProcessorRef' = Len(vsCaptures) + 1
    /\ vsOut' = VsSend(vsOut, vsCalls[c].ws, "start")
    /\ vsIsListening' = (vsMounted \/ vsIsListening)
    /\ UNCHANGED <<vsMounted, vsRendered, vsSockets, vsWsRef, vsAudioSent>>
    /\ UNCHANGED vsReleaseLog
    /\ UNCHANGED nonVsVars

\* getUserMedia rejects for call c; the call's catch runs
VsMicDenied(c) ==
    /\ vsCalls[c].pc = "micWait"
    /\ vsCalls' = [vsCalls EXCEPT ![c].pc = "done"]
    /\ UNCHANGED <<vsMounted, vsIsListening, vsRendered,
                   vsSockets, vsWsRef, vsCaptures,
                   vsProcessorRef, vsAudioContextRef, vsMediaStreamRef, vsOut,
                   vsAudioSent>>
    /\ UNCHANGED vsReleaseLog
    /\ UNCHANGED nonVsVars

\* processor.onaudioprocess of capture p
VsAudioProcess(p) ==
    /\ vsCaptures[p].processing
    /\ VsOpen(vsCaptures[p].ws)
    /\ vsAudioSent < MaxAudio
    /\ vsAudioSent' = vsAudioSent + 1
    /\ vsOut' = VsSend(vsOut, vsCaptures[p].ws, "audio")
    /\ UNCHANGED <<vsMounted, vsIsListening, vsRendered,
                   vsSockets, vsWsRef, vsCalls, vsCaptures,
                   vsProcessorRef, vsAudioContextRef, vsMediaStreamRef>>
    /\ UNCHANGED vsReleaseLog
    /\ UNCHANGED nonVsVars

\* stopListening releases only what the three refs point to
VsReleased ==
    [p \in 1..Len(vsCaptures) |->
        [ws |-> vsCaptures[p].ws,
         processing |-> vsCaptures[p].processing /\ p # vsProcessorRef,
         contextOpen |-> vsCaptures[p].contextOpen /\ p # vsAudioContextRef,
         tracksLive |-> vsCaptures[p].tracksLive /\ p # vsMediaStreamRef]]

\* the release calls stopListening makes, in the order it makes them
VsReleaseCalls ==
    (IF vsProcessorRef # 0 THEN <<"processor.disconnect">> ELSE <<>>)
    \o (IF vsAudioContextRef # 0 THEN <<"audioContext.close">> ELSE <<>>)
    \o (IF vsMediaStreamRef # 0 THEN <<"track.stop">> ELSE <<>>)

\* history: the startListening calls that were suspended when stopListening
\* or the unmount cleanup ran are marked
VsMarkStopped ==
    [c \in 1..Len(vsCalls) |->
        IF vsCalls[c].pc = "done" THEN vsCalls[c]
        ELSE [vsCalls[c] EXCEPT !.stopped = TRUE]]

\* the {type:"stop"} messages handed to ws.send so far
StopsSent == Cardinality({k \in 1..Len(vsOut) : vsOut[k].kind = "stop"})

\* onClick = stopListening: `if (!isListening) return` tests the value the
\* render that made this closure captured
VsStopListening ==
    /\ vsMounted
    /\ vsRendered
    /\ StopsSent < MaxStops
    /\ vsOut' = VsSend(vsOut, vsWsRef, "stop")
    /\ vsCaptures' = VsReleased
    /\ vsProcessorRef' = 0
    /\ vsAudioContextRef' = 0
    /\ vsMediaStreamRef' = 0
    /\ vsIsListening' = FALSE
    /\ vsCalls' = VsMarkStopped
    /\ vsReleaseLog' = VsReleaseCalls
    /\ UNCHANGED <<vsMounted, vsRendered, vsSockets, vsWsRef, vsAudioSent>>
    /\ UNCHANGED nonVsVars

\* React commits the render that follows a setIsListening: from now on the
\* handlers are the closures that captured the new isListening
VsRender ==
    /\ vsMounted
    /\ vsRendered # vsIsListening
    /\ vsRendered' = vsIsListening
    /\ UNCHANGED <<vsMounted, vsIsListening, vsSockets, vsWsRef, vsCalls,
                   vsCaptures, vsProcessorRef, vsAudioContextRef,
                   vsMediaStreamRef, vsOut, vsAudioSent>>
    /\ UNCHANGED vsReleaseLog
    /\ UNCHANGED nonVsVars

\* the cleanup of the mount effect.  Its stopListening is the closure of the
\* first render, whose isListening is false, so it returns at once; then
\* wsRef.current, if set, is closed and cleared.
VsUnmount ==
    /\ vsMounted
    /\ vsMounted' = FALSE
    /\ vsSockets' = IF vsWsRef # 0
                    THEN [vsSockets EXCEPT ![vsWsRef] = "CLOSED"]
                    ELSE vsSockets
    /\ vsWsRef' = 0
    /\ vsCalls' = VsMarkStopped
    /\ UNCHANGED <<vsIsListening, vsRendered, vsCaptures, vsProcessorRef,
                   vsAudioContextRef, vsMediaStreamRef, vsOut, vsAudioSent>>
    /\ UNCHANGED vsReleaseLog
    /\ UNCHANGED nonVsVars

\* ws.onclose of an open socket s
VsSocketClose(s) ==
    /\ VsOpen(s)
    /\ vsSockets' = [vsSockets EXCEPT ![s] = "CLOSED"]
    /\ vsWsRef' = 0
    /\ UNCHANGED <<vsMounted, vsIsListening, vsRendered,
                   vsCalls, vsCaptures, vsProcessorRef,
                   vsAudioContextRef, vsMediaStreamRef, vsOut, vsAudioSent>>
    /\ UNCHANGED vsReleaseLog
    /\ UNCHANGED nonVsVars

InitCapture ==
    /\ VsIdle
    /\ ServerIdle
    /\ CodecIdle
    /\ variant = "turn"
    /\ UiIdle
    /\ SessIdle
    /\ VspIdle
    /\ TbIdle
    /\ ChatIdle
    /\ LiveIdle

NextCapture ==
    \/ VsStartListening
    \/ \E c \in 1..Len(vsCalls) : VsOnOpen(c)
    \/ \E c \in 1..Len(vsCalls) : VsConnectError(c)
    \/ \E c \in 1..Len(vsCalls) : VsMicGranted(c)
    \/ \E c \in 1..Len(vsCalls) : VsMicDenied(c)
    \/ \E p \in 1..Len(vsCaptures) : VsAudioProcess(p)
    \/ VsStopListening
    \/ VsRender
    \/ VsUnmount
    \/ \E s \in 1..Len(vsSockets) : VsSocketClose(s)

SpecCapture == InitCapture /\ [][NextCapture]_vars

-----------------------------------------------------------------------------
(* VoiceStreamer, response audio: ws.onmessage hands the audio of every      *)
(* llmResponseAudio message to playPcm24kFromBase64, which has no await and  *)
(* so runs to its end inside the handler.                                    *)

\* lengths, in clock ticks, of the audio a message may carry
VspDurations == {1, 2}

\* ensureOutputAudioContext of VoiceStreamer: the context, once created, is
\* kept
VspEnsureOutputAudioContext == vspAudioContextOutRef' = TRUE

\* ws.onmessage, llmResponseAudio whose audioBase64 decodes to audio lasting
\* d: source.start() has no `when`, so the source starts at once
VspAudioMessage(d) ==
    /\ vspReceived < MaxResponses
    /\ vspReceived' = vspReceived + 1
    /\ VspEnsureOutputAudioContext
    /\ vspStarted' = Append(vspStarted,
           [msg |-> vspReceived + 1, startAt |-> vspCurrentTime,
            duration |-> d])
    /\ UNCHANGED vspCurrentTime
    /\ UNCHANGED nonVspVars

\* ws.onmessage, llmResponseAudio whose audioBase64 is not base64: atob
\* throws after the context was ensured, the catch logs, nothing plays
VspAudioMessageBad ==
    /\ vspReceived < MaxResponses
    /\ vspReceived' = vspReceived + 1
    /\ VspEnsureOutputAudioContext
    /\ UNCHANGED <<vspStarted, vspCurrentTime>>
    /\ UNCHANGED nonVspVars

\* the clock of the output context advances
VspTick ==
    /\ vspAudioContextOutRef
    /\ vspCurrentTime < MaxPlayTime
    /\ vspCurrentTime' = vspCurrentTime + 1
    /\ UNCHANGED <<vspAudioContextOutRef, vspReceived, vspStarted>>
    /\ UNCHANGED nonVspVars

InitResponseAudio ==
    /\ VspIdle
    /\ ServerIdle
    /\ CodecIdle
    /\ variant = "turn"
    /\ UiIdle
    /\ VsIdle
    /\ SessIdle
    /\ TbIdle
    /\ ChatIdle
    /\ LiveIdle

NextResponseAudio ==
    \/ \E d \in VspDurations : VspAudioMessage(d)
    \/ VspAudioMessageBad
    \/ VspTick

SpecResponseAudio == InitResponseAudio /\ [][NextResponseAudio]_vars

-----------------------------------------------------------------------------
(* VoiceBotUI, turn-based variant: connection and capture.  Every startTurn  *)
(* call is followed on its own.  handleMicToggle, startTurn and              *)
(* stopListening test the isListening and isProcessing of the render that    *)
(* made them (tbRendered); a set state reaches the handlers at the next      *)
(* committed render (TbRender).  The onmessage and onclose handlers of a     *)
(* socket are closures of the startTurn call that created it, and that call  *)
(* belongs to a render in which isListening was false.                       *)

TbOpen(s) == s # 0 /\ tbSockets[s] = "OPEN"

\* handleMicToggle -> startTurn, up to the await of the open
TbStartTurn ==
    /\ ~tbRendered.isListening /\ ~tbRendered.isProcessing
    /\ Len(tbCalls) < MaxTurnCalls
    /\ tbSockets' = Append(tbSockets, "CONNECTING")
    /\ tbCalls' = Append(tbCalls,
           [pc |-> "connecting", ws |-> Len(tbSockets) + 1])
    /\ UNCHANGED <<tbIsListening, tbIsProcessing, tbRendered, tbWsRef,
                   tbCaptures, tbProcessorRef, tbAudioContextRef,
                   tbMediaStreamRef, tbOut>>
    /\ UNCHANGED nonTbVars

\* ws.onopen of the socket call c made; the call resumes, installs onmessage
\* and onclose, and waits for getUserMedia
TbOnOpen(c) ==
    /\ tbCalls[c].pc = "connecting"
    /\ tbSockets' = [tbSockets EXCEPT ![tbCalls[c].ws] = "OPEN"]
    /\ tbWsRef' = tbCalls[c].ws
    /\ tbCalls' = [tbCalls EXCEPT ![c].pc = "micWait"]
    /\ UNCHANGED <<tbIsListening, tbIsProcessing, tbRendered, tbCaptures,
                   tbProcessorRef, tbAudioContextRef, tbMediaStreamRef, tbOut>>
    /\ UNCHANGED nonTbVars

\* ws.onerror while call c waits for the open: the promise rejects, the
\* catch runs
TbConnectError(c) ==
    /\ tbCalls[c].pc = "connecting"
    /\ tbSockets' = [tbSockets EXCEPT ![tbCalls[c].ws] = "CLOSED"]
    /\ tbCalls' = [tbCalls EXCEPT ![c].pc = "done"]
    /\ UNCHANGED <<tbIsListening, tbIsProcessing, tbRendered, tbWsRef,
                   tbCaptures, tbProcessorRef, tbAudioContextRef,
                   tbMediaStreamRef, tbOut>>
    /\ UNCHANGED nonTbVars

\* getUserMedia resolves for call c; the call runs to its end
TbMicGranted(c) ==
    /\ tbCalls[c].pc = "micWait"
    /\ tbCalls' = [tbCalls EXCEPT ![c].pc = "done"]
    /\ tbCaptures' = Append(tbCaptures,
           [ws |-> tbCalls[c].ws, processing |-> TRUE, contextOpen |-> TRUE,
            tracksLive |-> TRUE])
    /\ tbAudioContextRef' = Len(tbCaptures) + 1
    /\ tbMediaStreamRef' = Len(tbCaptures) + 1
    /\ tbProcessorRef' = Len(tbCaptures) + 1
    /\ tbIsListening' = TRUE
    /\ UNCHANGED <<tbIsProcessing, tbRendered, tbSockets, tbWsRef, tbOut>>
    /\ UNCHANGED nonTbVars

\* getUserMedia rejects for call c; the catch runs
TbMicDenied(c) ==
    /\ tbCalls[c].pc = "micWait"
    /\ tbCalls' = [tbCalls EXCEPT ![c].pc = "done"]
    /\ UNCHANGED <<tbIsListening, tbIsProcessing, tbRendered, tbSockets,
                   tbWsRef, tbCaptures, tbProcessorRef, tbAudioContextRef,
                   tbMediaStreamRef, tbOut>>
    /\ UNCHANGED nonTbVars

\* stopListening releases only what the three refs point to
TbReleased ==
    [p \in 1..Len(tbCaptures) |->
        [ws |-> tbCaptures[p].ws,
         processing |-> tbCaptures[p].processing /\ p # tbProcessorRef,
         contextOpen |-> tbCaptures[p].contextOpen /\ p # tbAudioContextRef,
         tracksLive |-> tbCaptures[p].tracksLive /\ p # tbMediaStreamRef]]

\* handleMicToggle -> stopListening
TbStopListening ==
    /\ tbRendered.isListening
    /\ Len(tbOut) < MaxEndTurns
    /\ tbCaptures' = TbReleased
    /\ tbProcessorRef' = 0
    /\ tbAudioContextRef' = 0
    /\ tbMediaStreamRef' = 0
    /\ tbOut' = IF TbOpen(tbWsRef) THEN Append(tbOut, tbWsRef) ELSE tbOut
    /\ tbIsListening' = FALSE
    /\ tbIsProcessing' = TRUE
    /\ UNCHANGED <<tbRendered, tbSockets, tbWsRef, tbCalls>>
    /\ UNCHANGED nonTbVars

\* ws.onmessage of open socket s with "RESPONSE_COMPLETE" or "ERROR"
TbResponseComplete(s) ==
    /\ TbOpen(s)
    /\ tbIsProcessing' = FALSE
    /\ UNCHANGED <<tbIsListening, tbRendered, tbSockets, tbWsRef, tbCalls,
                   tbCaptures, tbProcessorRef, tbAudioContextRef,
                   tbMediaStreamRef, tbOut>>
    /\ UNCHANGED nonTbVars

\* ws.onclose of open socket s: wsRef.current is cleared whichever socket it
\* holds; `if (isListening)` tests the value the startTurn call captured,
\* which is false, so stopListening is not called
TbSocketClose(s) ==
    /\ TbOpen(s)
    /\ tbSockets' = [tbSockets EXCEPT ![s] = "CLOSED"]
    /\ tbWsRef' = 0
    /\ UNCHANGED <<tbIsListening, tbIsProcessing, tbRendered, tbCalls,
                   tbCaptures, tbProcessorRef, tbAudioContextRef,
                   tbMediaStreamRef, tbOut>>
    /\ UNCHANGED nonTbVars

\* React commits the render that follows a set state
TbRender ==
    /\ tbRendered # [isListening |-> tbIsListening,
                     isProcessing |-> tbIsProcessing]
    /\ tbRendered' = [isListening |-> tbIsListening,
                      isProcessing |-> tbIsProcessing]
    /\ UNCHANGED <<tbIsListening, tbIsProcessing, tbSockets, tbWsRef, tbCalls,
                   tbCaptures, tbProcessorRef, tbAudioContextRef,
                   tbMediaStreamRef, tbOut>>
    /\ UNCHANGED nonTbVars

InitTurn ==
    /\ TbIdle
    /\ ServerIdle
    /\ CodecIdle
    /\ variant = "turn"
    /\ UiIdle
    /\ VsIdle
    /\ SessIdle
    /\ VspIdle
    /\ ChatIdle
    /\ LiveIdle

NextTurn ==
    \/ TbStartTurn
    \/ \E c \in 1..Len(tbCalls) : TbOnOpen(c)
    \/ \E c \in 1..Len(tbCalls) : TbConnectError(c)
    \/ \E c \in 1..Len(tbCalls) : TbMicGranted(c)
    \/ \E c \in 1..Len(tbCalls) : TbMicDenied(c)
    \/ TbStopListening
    \/ \E s \in 1..Len(tbSockets) : TbResponseComplete(s)
    \/ \E s \in 1..Len(tbSockets) : TbSocketClose(s)
    \/ TbRender

SpecTurn == InitTurn /\ [][NextTurn]_vars

\* what happens without the user: the handlers of the events the browser
\* and the server deliver, and React's render.  Nothing makes the user click.
TbHandlers ==
    \/ \E c \in 1..Len(tbCalls) : TbOnOpen(c)
    \/ \E c \in 1..Len(tbCalls) : TbMicGranted(c)
    \/ \E s \in 1..Len(tbSockets) : TbResponseComplete(s)
    \/ \E s \in 1..Len(tbSockets) : TbSocketClose(s)
    \/ TbRender

SpecTurnFair == SpecTurn /\ WF_vars(TbHandlers)

-----------------------------------------------------------------------------
(* VoiceStreamer, chat list: handleTranscriptMessage and applyLlmResponse.   *)
(* A chat message keeps, next to role and status, the utterance it was       *)
(* inserted for (utt) and the utterance whose response text it shows         *)
(* (reply; 0 stands for the placeholder text).  The server answers an        *)
(* utterance with llmResponse or with error, in any order (index.ts:72-96).  *)

ChatMessage(role, status, utt, reply) ==
    [role |-> role, status |-> status, utt |-> utt, reply |-> reply]

\* the assistant messages still pending
PendingAssistants(msgs) ==
    {i \in 1..Len(msgs) :
        msgs[i].role = "assistant" /\ msgs[i].status = "pending"}

\* applyLlmResponse with the text of the response to utterance u: the loop
\* runs from the end of the list and fills the first pending assistant
\* message it meets; without one, the text is appended
applyLlmResponse(msgs, u) ==
    LET pend == PendingAssistants(msgs)
    IN IF pend = {}
       THEN Append(msgs, ChatMessage("assistant", "done", 0, u))
       ELSE LET i == CHOOSE k \in pend : \A m \in pend : m <= k
            IN [msgs EXCEPT ![i] = ChatMessage("assistant", "done", @.utt, u)]

\* ws.onmessage, transcript with isFinal false
ChatInterimTranscript ==
    /\ ~chatInterim
    /\ chatInterim' = TRUE
    /\ UNCHANGED <<chatMessages, chatFinals, chatAwaiting>>
    /\ UNCHANGED nonChatVars

\* ws.onmessage, final transcript whose text is blank
ChatBlankFinal ==
    /\ chatInterim
    /\ chatInterim' = FALSE
    /\ UNCHANGED <<chatMessages, chatFinals, chatAwaiting>>
    /\ UNCHANGED nonChatVars

\* ws.onmessage, final transcript with text: the user message and the
\* assistant placeholder are appended together
ChatFinalTranscript ==
    /\ chatFinals < MaxFinals
    /\ chatFinals' = chatFinals + 1
    /\ chatInterim' = FALSE
    /\ chatMessages' = chatMessages
           \o << ChatMessage("user", "done", chatFinals + 1, 0),
                 ChatMessage("assistant", "pending", chatFinals + 1, 0) >>
    /\ chatAwaiting' = chatAwaiting \cup {chatFinals + 1}
    /\ UNCHANGED nonChatVars

\* ws.onmessage, the llmResponse the server sends for utterance u
ChatLlmResponse(u) ==
    /\ u \in chatAwaiting
    /\ chatAwaiting' = chatAwaiting \ {u}
    /\ chatMessages' = applyLlmResponse(chatMessages, u)
    /\ UNCHANGED <<chatInterim, chatFinals>>
    /\ UNCHANGED nonChatVars

\* ws.onmessage, the error the server sends for utterance u: only the status
\* text changes
ChatError(u) ==
    /\ u \in chatAwaiting
    /\ chatAwaiting' = chatAwaiting \ {u}
    /\ UNCHANGED <<chatMessages, chatInterim, chatFinals>>
    /\ UNCHANGED nonChatVars

InitChat ==
    /\ ChatIdle
    /\ ServerIdle
    /\ CodecIdle
    /\ variant = "turn"
    /\ UiIdle
    /\ VsIdle
    /\ SessIdle
    /\ VspIdle
    /\ TbIdle
    /\ LiveIdle

NextChat ==
    \/ ChatInterimTranscript
    \/ ChatBlankFinal
    \/ ChatFinalTranscript
    \/ \E u \in chatAwaiting : ChatLlmResponse(u)
    \/ \E u \in chatAwaiting : ChatError(u)

SpecChat == InitChat /\ [][NextChat]_vars

\* the same, with the server answering every final transcript
SpecChatFair ==
    SpecChat /\ WF_vars(\E u \in chatAwaiting : ChatLlmResponse(u) \/ ChatError(u))

-----------------------------------------------------------------------------
(* runGeminiLiveTextTurn (llm/geminiLiveText.ts): one call.  The session's   *)
(* callbacks run between the steps of the call; onerror and onclose only     *)
(* log.                                                                      *)

\* the call is made: without an API key it returns a fixed text at once,
\* else it awaits ai.live.connect
LiveCall(hasKey) ==
    /\ livePc = "start"
    /\ livePc' = IF hasKey THEN "connecting" ELSE "returned"
    /\ UNCHANGED <<liveSession, responseQueue, liveTurns, liveReceived>>
    /\ UNCHANGED nonLiveVars

\* ai.live.connect resolves: the user turn is sent and handleTurn starts
LiveConnected ==
    /\ livePc = "connecting"
    /\ liveSession' = "open"
    /\ livePc' = "waiting"
    /\ UNCHANGED <<responseQueue, liveTurns, liveReceived>>
    /\ UNCHANGED nonLiveVars

\* ai.live.connect rejects: the call throws
LiveConnectFailed ==
    /\ livePc = "connecting"
    /\ livePc' = "threw"
    /\ UNCHANGED <<liveSession, responseQueue, liveTurns, liveReceived>>
    /\ UNCHANGED nonLiveVars

\* callbacks.onmessage: pushMessage
LiveOnMessage(turnComplete) ==
    /\ liveSession = "open"
    /\ liveReceived < MaxLiveMessages
    /\ liveReceived' = liveReceived + 1
    /\ responseQueue' = Append(responseQueue, turnComplete)
    /\ UNCHANGED <<livePc, liveSession, liveTurns>>
    /\ UNCHANGED nonLiveVars

\* callbacks.onerror: console.error, nothing else
LiveOnError ==
    /\ liveSession = "open"
    /\ liveSession' = "errored"
    /\ UNCHANGED <<livePc, responseQueue, liveTurns, liveReceived>>
    /\ UNCHANGED nonLiveVars

\* callbacks.onclose: console.debug, nothing else
LiveOnClose ==
    /\ liveSession \in {"open", "errored"}
    /\ liveSession' = "closed"
    /\ UNCHANGED <<livePc, responseQueue, liveTurns, liveReceived>>
    /\ UNCHANGED nonLiveVars

\* one round of waitMessage inside handleTurn: a queued message is shifted
\* and pushed to turns, and a message with turnComplete ends the loop and
\* leads to `await session.close()`; with an empty queue the 50 ms timer is
\* set and the round repeats
LivePoll ==
    /\ livePc = "waiting"
    /\ IF responseQueue = <<>>
       THEN UNCHANGED <<livePc, responseQueue, liveTurns>>
       ELSE /\ responseQueue' = Tail(responseQueue)
            /\ liveTurns' = liveTurns + 1
            /\ livePc' = IF Head(responseQueue) THEN "closing" ELSE "waiting"
    /\ UNCHANGED <<liveSession, liveReceived>>
    /\ UNCHANGED nonLiveVars

\* `await session.close()` resumes and the text is returned
LiveReturn ==
    /\ livePc = "closing"
    /\ livePc' = "returned"
    /\ liveSession' = IF liveSession = "none" THEN "none" ELSE "closed"
    /\ UNCHANGED <<responseQueue, liveTurns, liveReceived>>
    /\ UNCHANGED nonLiveVars

InitLive ==
    /\ LiveIdle
    /\ ServerIdle
    /\ CodecIdle
    /\ variant = "turn"
    /\ UiIdle
    /\ VsIdle
    /\ SessIdle
    /\ VspIdle
    /\ TbIdle
    /\ ChatIdle

NextLive ==
    \/ \E hasKey \in BOOLEAN : LiveCall(hasKey)
    \/ LiveConnected
    \/ LiveConnectFailed
    \/ \E tc \in BOOLEAN : LiveOnMessage(tc)
    \/ LiveOnError
    \/ LiveOnClose
    \/ LivePoll
    \/ LiveReturn

SpecLive == InitLive /\ [][NextLive]_vars

\* the same, with the steps of the call itself taken: its timers fire and
\* its continuations run
SpecLiveFair == SpecLive /\ WF_vars(LivePoll \/ LiveReturn)

-----------------------------------------------------------------------------
(* Server, several connections: wss.on("connection") runs once per client,   *)
(* so every connection has its own closure (recognizeStream, sendJSON); the  *)
(* SpeechClient of googleSpeechClient.ts is one object shared by all.  A     *)
(* message is kept as its type only.                                         *)

\* where the closure of connection c keeps its recognizeStream: `let
\* recognizeStream` is declared inside the connection callback
SessSlot(c) == c

\* sendJSON of connection c
SessSend(log, c, type) ==
    IF sessReady[c] = "OPEN" THEN [log EXCEPT ![c] = Append(@, type)] ELSE log

SessReceiving(c) == sessReady[c] = "OPEN" /\ sessEvents < MaxSessEvents

\* text frame {type:"start"} on connection c
SessStart(c) ==
    /\ SessReceiving(c)
    /\ sessEvents' = sessEvents + 1
    /\ LET cur == sessStream[SessSlot(c)]
           cleared == IF cur # 0
                      THEN [speechStreams EXCEPT ![cur].status = "destroyed"]
                      ELSE speechStreams
       IN speechStreams' = Append(cleared,
              [conn |-> c, status |-> "live", writes |-> 0])
    /\ sessStream' = [sessStream EXCEPT ![SessSlot(c)] = Len(speechStreams) + 1]
    /\ sessSent' = SessSend(sessSent, c, "info")
    /\ UNCHANGED <<sessReady, sessPending>>
    /\ UNCHANGED nonSessVars

\* stopRecognitionStream of connection c
SessStopStream(c) ==
    LET cur == sessStream[SessSlot(c)]
    IN IF cur # 0
       THEN /\ speechStreams' = [speechStreams EXCEPT ![cur].status = "ended"]
            /\ sessStream' = [sessStream EXCEPT ![SessSlot(c)] = 0]
            /\ sessSent' = SessSend(sessSent, c, "info")
       ELSE UNCHANGED <<speechStreams, sessStream, sessSent>>

\* text frame {type:"stop"} on connection c
SessStop(c) ==
    /\ SessReceiving(c)
    /\ sessEvents' = sessEvents + 1
    /\ SessStopStream(c)
    /\ UNCHANGED <<sessReady, sessPending>>
    /\ UNCHANGED nonSessVars

\* text frame {type:"ping"} on connection c
SessPing(c) ==
    /\ SessReceiving(c)
    /\ sessEvents' = sessEvents + 1
    /\ sessSent' = SessSend(sessSent, c, "info")
    /\ UNCHANGED <<sessReady, sessStream, speechStreams, sessPending>>
    /\ UNCHANGED nonSessVars

\* text frame that JSON.parse rejects on connection c
SessInvalidJSON(c) ==
    /\ SessReceiving(c)
    /\ sessEvents' = sessEvents + 1
    /\ sessSent' = SessSend(sessSent, c, "error")
    /\ UNCHANGED <<sessReady, sessStream, speechStreams, sessPending>>
    /\ UNCHANGED nonSessVars

\* text frame "null" on connection c: `data.type` throws, nothing catches
\* it and the process exits, which ends every connection, every stream and
\* every suspended handler
SessJSONNull(c) ==
    /\ SessReceiving(c)
    /\ sessEvents' = sessEvents + 1
    /\ sessReady' = [d \in 1..MaxConns |-> "CLOSED"]
    /\ sessStream' = [d \in 1..MaxConns |-> 0]
    /\ speechStreams' = [i \in 1..Len(speechStreams) |->
                            [speechStreams[i] EXCEPT !.status = "destroyed"]]
    /\ sessPending' = {}
    /\ UNCHANGED sessSent
    /\ UNCHANGED nonSessVars

\* binary frame on connection c
SessBinary(c) ==
    /\ SessReceiving(c)
    /\ sessEvents' = sessEvents + 1
    /\ LET cur == sessStream[SessSlot(c)]
       IN speechStreams' = IF cur = 0 THEN speechStreams
                           ELSE [speechStreams EXCEPT ![cur].writes = @ + 1]
    /\ UNCHANGED <<sessReady, sessStream, sessSent, sessPending>>
    /\ UNCHANGED nonSessVars

\* ws.on("close") of connection c: the socket is closed when the handler runs
SessClose(c) ==
    /\ sessReady[c] = "OPEN"
    /\ sessReady' = [sessReady EXCEPT ![c] = "CLOSED"]
    /\ LET cur == sessStream[SessSlot(c)]
       IN IF cur # 0
          THEN /\ speechStreams' =
                      [speechStreams EXCEPT ![cur].status = "ended"]
               /\ sessStream' = [sessStream EXCEPT ![SessSlot(c)] = 0]
          ELSE UNCHANGED <<speechStreams, sessStream>>
    /\ UNCHANGED <<sessSent, sessPending, sessEvents>>
    /\ UNCHANGED nonSessVars

SessDelivering(i) == speechStreams[i].status \in {"live", "ended"}

\* "data" of stream i: its handler is the closure of the connection that
\* opened it.  A final transcript with text suspends in the chain.
SessRecognizerData(i, startsChain) ==
    /\ sessEvents < MaxSessEvents
    /\ i \in 1..Len(speechStreams) /\ SessDelivering(i)
    /\ sessEvents' = sessEvents + 1
    /\ sessSent' = SessSend(sessSent, speechStreams[i].conn, "transcript")
    /\ sessPending' = IF startsChain THEN sessPending \cup {i} ELSE sessPending
    /\ UNCHANGED <<sessReady, sessStream, speechStreams>>
    /\ UNCHANGED nonSessVars

\* "error" of stream i
SessRecognizerError(i) ==
    /\ sessEvents < MaxSessEvents
    /\ i \in 1..Len(speechStreams) /\ SessDelivering(i)
    /\ sessEvents' = sessEvents + 1
    /\ speechStreams' = [speechStreams EXCEPT ![i].status = "errored"]
    /\ sessSent' = SessSend(sessSent, speechStreams[i].conn, "error")
    /\ UNCHANGED <<sessReady, sessStream, sessPending>>
    /\ UNCHANGED nonSessVars

\* runGeminiTextThenAudio settles for a chain started by stream i
SessGeminiSettle(i, ok) ==
    /\ i \in sessPending
    /\ sessPending' = sessPending \ {i}
    /\ sessSent' = SessSend(sessSent, speechStreams[i].conn,
                            IF ok THEN "llmResponse" ELSE "error")
    /\ UNCHANGED <<sessReady, sessStream, speechStreams, sessEvents>>
    /\ UNCHANGED nonSessVars

InitSessions ==
    /\ SessIdle
    /\ ServerIdle
    /\ CodecIdle
    /\ variant = "turn"
    /\ UiIdle
    /\ VsIdle
    /\ VspIdle
    /\ TbIdle
    /\ ChatIdle
    /\ LiveIdle

NextSessions ==
    \/ \E c \in 1..MaxConns : SessStart(c)
    \/ \E c \in 1..MaxConns : SessStop(c)
    \/ \E c \in 1..MaxConns : SessPing(c)
    \/ \E c \in 1..MaxConns : SessInvalidJSON(c)
    \/ \E c \in 1..MaxConns : SessJSONNull(c)
    \/ \E c \in 1..MaxConns : SessBinary(c)
    \/ \E c \in 1..MaxConns : SessClose(c)
    \/ \E i \in 1..Len(speechStreams), f \in BOOLEAN : SessRecognizerData(i, f)
    \/ \E i \in 1..Len(speechStreams) : SessRecognizerError(i)
    \/ \E i \in sessPending, ok \in BOOLEAN : SessGeminiSettle(i, ok)

SpecSessions == InitSessions /\ [][NextSessions]_vars

-----------------------------------------------------------------------------
(* Claims about the server *)

IsResponse(m) == m.type \in {"llmResponse", "llmResponseAudio"}

\* message types that would mark the end of a turn; ServerToClientMessage
\* (types/websocket.ts) has none of them
TurnCompleteTypes == {"turn-complete", "turnComplete", "RESPONSE_COMPLETE"}

\* C1: a `start` handled while the session is not Idle is rejected: the
\* current recognition stream and the set of streams are left as they are and
\* exactly one message, an `error`, is sent.
C1_StartRejectedWhenNotIdle ==
    [][ ((\E m \in StartMessages : RecvStart(m)) /\ ~Idle)
          => /\ recognizeStream' = recognizeStream
             /\ streams' = streams
             /\ Len(sent') = Len(sent) + 1
             /\ sent'[Len(sent')].type = "error" ]_vars

\* C2: at no time are two invocations of the generation/synthesis chain
\* pending on the connection.
C2_AtMostOneChainPending == Cardinality(pending) <= 1

\* C9: every llmResponse in the sent log is preceded by a transcript message
\* with isFinal true for the utterance that triggered it.
C9_ResponseAfterFinalTranscript ==
    \A j \in 1..Len(sent) :
        sent[j].type = "llmResponse" =>
            \E i \in 1..(j - 1) :
                /\ sent[i].type = "transcript"
                /\ sent[i].isFinal
                /\ sent[i].utt = sent[j].utt
                /\ Trim(sent[i].message) # <<>>

\* C9 witness: a response has been sent.
C9_Witness == \E j \in 1..Len(sent) : sent[j].type = "llmResponse"

\* C10: once the handler of a turn that produced a response has finished,
\* exactly one turn-complete message follows the last response message of
\* that turn.
C10_TurnCompleteAfterResponse ==
    \A u \in completed :
        LET resp == {j \in 1..Len(sent) : IsResponse(sent[j]) /\ sent[j].utt = u}
            done == {k \in 1..Len(sent) : sent[k].type \in TurnCompleteTypes}
        IN resp # {} =>
             /\ Cardinality({k \in done : sent[k].utt = u}) = 1
             /\ \A j \in resp : \E k \in done : k > j /\ sent[k].utt = u

\* the messages a step appended to the sent log
NewlySent == SubSeq(sent', Len(sent) + 1, Len(sent'))

NoErrorIn(log) == \A k \in 1..Len(log) : log[k].type # "error"

\* a final transcript whose trimmed text is empty arrives
BlankFinalArrives ==
    \E i \in 1..Len(streams), t \in TranscriptTexts :
        Trim(t) = <<>> /\ RecognizerData(i, TRUE, t)

C16_EndTurnSentinelAccepted ==
    [][ RecvInvalidJSON("END_TURN")
          => /\ NoErrorIn(NewlySent)
             /\ recognizeStream' = 0
             /\ recognizeStream # 0
                 => streams'[recognizeStream].status = "ended" ]_vars

\* the messages of a log that stem from utterance u
OfUtterance(log, u, types) ==
    {k \in 1..Len(log) : log[k].utt = u /\ log[k].type \in types}

\* C17: when the generation/synthesis call of a turn fails on an open
\* connection, the handler sends one message, an `error` for that turn; a
\* turn never has more than one `error`, nor an `error` together with an
\* llmResponse or llmResponseAudio; and every `start`, after a failure too,
\* opens a new recognition stream that becomes the current one.
C17_ChainFailureReported ==
    [][ /\ \A u \in pending :
               (GeminiReject(u) /\ readyState = "OPEN")
               => /\ Len(NewlySent) = 1
                  /\ NewlySent[1].type = "error"
                  /\ NewlySent[1].utt = u
        /\ \A u \in 1..uttCount' :
               /\ Cardinality(OfUtterance(sent', u, {"error"})) <= 1
               /\ OfUtterance(sent', u, {"error"}) # {}
                   => OfUtterance(sent', u,
                                  {"llmResponse", "llmResponseAudio"}) = {}
        /\ (\E m \in StartMessages : RecvStart(m))
            => /\ Len(streams') = Len(streams) + 1
               /\ recognizeStream' = Len(streams')
               /\ streams'[recognizeStream'].status = "live" ]_vars

\* C17 witness: the chain of a turn failed, its `error` was sent, and a later
\* `start` opened the recognition stream that is now current.
C17_Witness ==
    \E j \in 1..Len(sent) :
        /\ sent[j].type = "error" /\ sent[j].utt # 0
        /\ \E k \in (j + 1)..Len(sent) :
               sent[k] = InfoMsg("Recognition stream started")
        /\ recognizeStream = Len(streams)
        /\ streams[recognizeStream].status = "live"

\* C18: when the recognizer reports an error, the handler sends exactly one
\* `error` and the failed stream stops being the current recognition stream:
\* no stream that has failed is current, and no binary frame is written to a
\* failed stream.
C18_RecognizerErrorReturnsToIdle ==
    [][ /\ \A i \in 1..Len(streams) :
               (RecognizerError(i) /\ readyState = "OPEN")
               => /\ Len(NewlySent) = 1
                  /\ NewlySent[1].type = "error"
        /\ recognizeStream' # 0
            => streams'[recognizeStream'].status # "errored"
        /\ RecvBinary
            => \A i \in 1..Len(streams) :
                   streams[i].status = "errored"
                   => streams'[i].writes = streams[i].writes ]_vars

\* C22: no generation/synthesis call stays pending for ever: a turn whose
\* call never resolves is eventually ended by the server (with an `error`),
\* so every pending call eventually stops being pending.
C22_PendingChainEventuallyEnds ==
    \A u \in 1..MaxSrvEvents : (u \in pending) ~> (u \notin pending)

\* an event of connection a is handled: a message or the close of a, an
\* event of a recognition stream a opened, or the end of a chain a started
SessEventOf(a) ==
    \/ SessStart(a) \/ SessStop(a) \/ SessPing(a) \/ SessInvalidJSON(a)
    \/ SessJSONNull(a) \/ SessBinary(a) \/ SessClose(a)
    \/ \E i \in 1..Len(speechStreams) :
           /\ speechStreams[i].conn = a
           /\ \/ \E f \in BOOLEAN : SessRecognizerData(i, f)
              \/ SessRecognizerError(i)
              \/ \E ok \in BOOLEAN : SessGeminiSettle(i, ok)

\* C23: handling an event of connection a leaves every other connection b
\* as it was: b's socket state, b's current recognition stream, the streams b
\* opened and the messages sent on b.
C23_SessionsIsolated ==
    [][ \A a, b \in 1..MaxConns :
            (a # b /\ SessEventOf(a))
            => /\ sessReady'[b] = sessReady[b]
               /\ sessStream'[b] = sessStream[b]
               /\ sessSent'[b] = sessSent[b]
               /\ \A i \in 1..Len(speechStreams) :
                      speechStreams[i].conn = b
                      => speechStreams'[i] = speechStreams[i] ]_vars

\* positions of the llmResponse messages in the sent log
ResponsePositions == {j \in 1..Len(sent) : sent[j].type = "llmResponse"}

\* C32: llmResponse messages are sent in the order of the final transcripts
\* that triggered them, also when a later final transcript arrives while
\* the chain of an earlier one is pending.
C32_ResponsesInTranscriptOrder ==
    \A i, j \in ResponsePositions : i < j => sent[i].utt < sent[j].utt

\* the recognition streams that are open: neither ended nor destroyed (a
\* stream is marked "errored" while it is the current one, or after it was
\* ended)
LiveStreams == {i \in 1..Len(streams) : streams[i].status = "live"}

\* C38: the connection has at most one live recognition stream: every
\* stream other than the current one has been ended or destroyed, and after
\* close none is live.
C38_AtMostOneLiveStream ==
    /\ LiveStreams \subseteq {recognizeStream}
    /\ readyState = "CLOSED" => LiveStreams = {}

\* C38 witness: a second `start` replaced an open stream and the socket then
\* closed: two streams were created and neither is live.
C38_Witness ==
    /\ readyState = "CLOSED"
    /\ ~uncaught
    /\ Len(streams) = 2
    /\ streams[1].status = "destroyed"
    /\ streams[2].status = "ended"

\* C39: nothing is sent on a connection that is not open: once the socket
\* has closed, no handler appends to the sent log, the continuations of
\* recognizer events and of pending chains included.
C39_NothingSentAfterClose ==
    [][ readyState' = "CLOSED" => sent' = sent ]_vars

\* C39 witness: the socket closed while a chain was pending and the chain
\* has settled since: its final transcript was sent, no reply to it was.
C39_Witness ==
    /\ readyState = "CLOSED"
    /\ ~uncaught
    /\ \E u \in completed :
           /\ \E j \in 1..Len(sent) :
                  /\ sent[j].type = "transcript" /\ sent[j].utt = u
                  /\ sent[j].isFinal /\ Trim(sent[j].message) # <<>>
           /\ \A j \in 1..Len(sent) :
                  sent[j].utt = u => sent[j].type = "transcript"

\* C24: a binary frame received while the connection has no open recognition
\* stream is discarded: it changes no stream, sends nothing, and the stream a
\* later `start` opens begins with no audio written to it.
C24_BinaryWithoutStreamDiscarded ==
    [][ /\ (RecvBinary /\ recognizeStream = 0)
            => UNCHANGED <<streams, recognizeStream, sent, pending>>
        /\ (\E m \in StartMessages : RecvStart(m))
            => streams'[recognizeStream'].writes = 0 ]_vars

\* C24 witness: after start and stop a further frame arrived and left things
\* as they were: the only stream is ended with nothing written to it and
\* nothing but the two info messages was sent.
C24_Witness ==
    /\ srvEvents = 3
    /\ readyState = "OPEN"
    /\ recognizeStream = 0
    /\ Len(streams) = 1
    /\ streams[1].status = "ended" /\ streams[1].writes = 0
    /\ sent = << InfoMsg("Recognition stream started"),
                 InfoMsg("Recognition stream stopped") >>

\* C26: the recognition request opened on `start` uses the language hints
\* of the session: its primary language is the message's languageCode, its
\* alternate languages are the message's altLanguages and its sample rate is
\* the message's sampleRate.
C26_RequestUsesSessionLanguages ==
    [][ \A m \in StartMessages :
            RecvStart(m)
            => LET request == streams'[recognizeStream'].request
               IN /\ request.languageCode = m.languageCode
                  /\ request.alternativeLanguageCodes = m.altLanguages
                  /\ request.sampleRateHertz = m.sampleRate ]_vars

\* a text frame that is not a well-formed control message is handled: text
\* that is not JSON, the JSON value null, or an object of unknown type
MalformedText ==
    \/ \E text \in NonJSONTexts : RecvInvalidJSON(text)
    \/ RecvJSONNull
    \/ RecvUnknownType

\* C28: a malformed text message is dropped and the session continues: the
\* recognition stream and the pending chains are as before, the handler
\* raises no exception and the connection still receives messages.
C28_MalformedTextDropped ==
    [][ MalformedText
        => /\ UNCHANGED <<recognizeStream, streams, pending>>
           /\ uncaught' = FALSE
           /\ readyState' = "OPEN" ]_vars

\* C30: a message is classified by its frame type alone: a binary frame is
\* handled as audio (it ends, replaces or opens no stream and sends nothing),
\* and a text frame is never written to a recognition stream, whatever the
\* frame holds.
C30_ClassifiedByFrameType ==
    [][ \A frame \in Frames :
            OnMessage(frame)
            => IF frame.isBinary
               THEN /\ UNCHANGED <<recognizeStream, sent, pending, readyState,
                                   uncaught>>
                    /\ Len(streams') = Len(streams)
                    /\ \A i \in 1..Len(streams) :
                           streams'[i].status = streams[i].status
               ELSE \A i \in 1..Len(streams) :
                        streams'[i].writes = streams[i].writes ]_vars

\* C30 witness: after `start`, one binary frame was written to the stream
\* and the stream is still the open one
C30_Witness ==
    /\ srvEvents = 2
    /\ recognizeStream = 1
    /\ streams[1].status = "live" /\ streams[1].writes = 1
    /\ sent = << InfoMsg("Recognition stream started") >>

\* the last "Recognition stream started" in a log (0 when there is none)
LastStart(log) ==
    LET starts == {k \in 1..Len(log) :
                      log[k] = InfoMsg("Recognition stream started")}
    IN IF starts = {} THEN 0 ELSE CHOOSE k \in starts : \A m \in starts : m <= k

\* a final transcript with text was relayed since the last start
FinalSinceStart(log) ==
    \E j \in (LastStart(log) + 1)..Len(log) :
        /\ log[j].type = "transcript" /\ log[j].isFinal
        /\ Trim(log[j].message) # <<>>

\* C25: once a final transcript with text has been delivered, binary frames
\* are not forwarded to the recognizer until a new `start` is received.
C25_FinalTranscriptEndsListening ==
    [][ (RecvBinary /\ FinalSinceStart(sent)) => streams' = streams ]_vars

\* a handler that tears the recognition stream down runs
Teardown == RecvStop \/ WsError \/ WsClose

StoppedInfos(log) ==
    {k \in 1..Len(log) : log[k] = InfoMsg("Recognition stream stopped")}

\* C14: server-side stop is idempotent.  A teardown (stop, or the close/error
\* handler) leaves no current stream, ends only the stream that was current
\* and sends at most one "Recognition stream stopped"; a teardown that finds
\* no current stream, or finds it already ended, changes neither the
\* streams nor the current stream nor the messages sent.
C14_ServerStopIdempotent ==
    [][ Teardown
          => /\ recognizeStream' = 0
             /\ Len(streams') = Len(streams)
             /\ \A i \in 1..Len(streams) :
                    i # recognizeStream => streams'[i] = streams[i]
             /\ Cardinality(StoppedInfos(NewlySent)) <= 1
             /\ Len(NewlySent) <= 1
             /\ (recognizeStream = 0
                   \/ streams[recognizeStream].status = "ended")
                 => UNCHANGED <<streams, recognizeStream, sent, pending,
                                completed, uttCount>> ]_vars

\* C14 witness: after start, the stream was torn down by a stop or by the
\* error handler and then the close handler ran: one stream, ended, and one
\* "Recognition stream stopped".
C14_Witness ==
    /\ readyState = "CLOSED"
    /\ srvEvents = 2
    /\ Len(streams) = 1 /\ streams[1].status = "ended"
    /\ recognizeStream = 0
    /\ sent = << InfoMsg("Recognition stream started"),
                 InfoMsg("Recognition stream stopped") >>

-----------------------------------------------------------------------------
(* Claims about the PCM codec *)

InRange(x) == x.den # 0 /\ x.num <= x.den /\ -x.den <= x.num

Abs(n) == IF n < 0 THEN -n ELSE n

\* |y - x| in units of 1/(x.den * 32768), for a decoded sample y = q/32768
RoundTripError(x, y) == Abs(y.num * x.den - x.num * PcmNegScale)

\* C6 as stated: every in-range sample comes back within 1/32768.
C6_RoundTripWithinOneStep ==
    codecPc = "decoded" =>
        \A i \in 1..Len(float32) :
            InRange(float32[i]) =>
                /\ channelData[i].den = PcmNegScale
                /\ RoundTripError(float32[i], channelData[i]) <= float32[i].den

\* C6 amended: a negative in-range sample comes back within 1/32768, a
\* non-negative one within less than 2/32768.
C6_RoundTripWithinTwoSteps ==
    codecPc = "decoded" =>
        \A i \in 1..Len(float32) :
            InRange(float32[i]) =>
                /\ channelData[i].den = PcmNegScale
                /\ IF float32[i].num < 0
                   THEN RoundTripError(float32[i], channelData[i])
                            <= float32[i].den
                   ELSE RoundTripError(float32[i], channelData[i])
                            < 2 * float32[i].den

\* C6 witness: a frame with a negative and a positive in-range sample, neither
\* on the 16-bit grid, has been encoded and decoded.
C6_Witness ==
    /\ codecPc = "decoded"
    /\ \E i, j \in 1..Len(float32) :
           /\ InRange(float32[i]) /\ float32[i].num < 0
           /\ InRange(float32[j]) /\ float32[j].num > 0
           /\ float32[i].den = FineDen /\ float32[i].num % 2 = 1
           /\ float32[j].den = FineDen /\ float32[j].num % 2 = 1

\* C7: the output has as many samples as the input; a sample above 1 gives
\* 32767 and one below -1 gives -32768 (clamped, not wrapped); an in-range
\* negative sample s gives s * 32768 and a non-negative one s * 32767, rounded
\* toward zero; every output lies in [-32768, 32767].
C7_ClampedAsymmetricScale ==
    codecPc # "captured" =>
        /\ Len(int16) = Len(float32)
        /\ \A i \in 1..Len(float32) :
               LET x == float32[i]
                   q == int16[i]
               IN /\ q \in -32768..32767
                  /\ (x.den # 0 /\ x.num > x.den) => q = 32767
                  /\ (x.den # 0 /\ x.num < -x.den) => q = -32768
                  /\ (InRange(x) /\ x.num < 0) =>
                        /\ q * x.den >= x.num * PcmNegScale
                        /\ (q - 1) * x.den < x.num * PcmNegScale
                  /\ (InRange(x) /\ x.num >= 0) =>
                        /\ q * x.den <= x.num * PcmPosScale
                        /\ (q + 1) * x.den > x.num * PcmPosScale

\* C7 witness: a frame holding a sample above 1 and a sample below -1 has been
\* converted.
C7_Witness ==
    /\ codecPc = "encoded"
    /\ \E i, j \in 1..Len(float32) :
           /\ float32[i].den # 0 /\ float32[i].num > float32[i].den
           /\ float32[j].den # 0 /\ float32[j].num < -float32[j].den

-----------------------------------------------------------------------------
(* Claims about the VoiceBotUI playback scheduler *)

EndOf(e) == e.startAt + e.duration

\* C3: each scheduled buffer starts no earlier than the buffer scheduled
\* before it ends, resets of the playhead included.
C3_NoOverlap ==
    \A i \in 1..(Len(scheduled) - 1) :
        scheduled[i + 1].startAt >= EndOf(scheduled[i])

\* C4: of two frames received on the same connection, the one received first
\* is scheduled with the earlier startAt.
C4_PlaybackOrderIsArrivalOrder ==
    \A i, j \in 1..Len(scheduled) :
        (scheduled[i].conn = scheduled[j].conn
           /\ scheduled[i].frame < scheduled[j].frame)
        => scheduled[i].startAt < scheduled[j].startAt

\* C5 as stated: while wsRef.current stays the same connection, no step
\* lowers the playhead.
C5_PlayheadMonotoneInSession ==
    [][ (wsRef # 0 /\ wsRef' = wsRef) => playheadRef' >= playheadRef ]_vars

\* C5 amended: scheduling a frame and obtaining the output context never lower
\* the playhead; the only steps that lower it are the resets (ws.onopen in the
\* continuous variant, the start of a turn in the turn-based one), and they
\* set it to the output context's current time.
C5_OnlyResetLowersPlayhead ==
    [][ playheadRef' < playheadRef
          => /\ (LiveOnOpen \/ MicGranted)
             /\ playheadRef' = currentTime ]_vars

\* C5 witness: two frames were scheduled on the current connection and the
\* playhead is ahead of the clock.
C5_Witness ==
    /\ wsRef # 0
    /\ Len(scheduled) >= 2
    /\ \A i \in 1..Len(scheduled) : scheduled[i].conn = wsRef
    /\ playheadRef > currentTime

\* the source.start calls a step made
NewlyScheduled == SubSeq(scheduled', Len(scheduled) + 1, Len(scheduled'))

\* C12: a playback buffer is scheduled only for a frame whose connection is
\* still open: once the transport has closed, the frames still being decoded
\* are not scheduled.
C12_NoSchedulingAfterClose ==
    [][ \A k \in 1..Len(NewlyScheduled) :
            NewlyScheduled[k].conn \in openSockets ]_vars

Max(a, b) == IF a >= b THEN a ELSE b

\* C13: a frame whose decode fails is dropped: the step schedules nothing and
\* leaves the playhead as it was; a frame whose decode succeeds, after a
\* failure or not, is scheduled at max(current time, playhead) and moves the
\* playhead to its end.
C13_FailedDecodeDropped ==
    [][ /\ (\E f \in decoding : DecodeFail(f))
            => /\ scheduled' = scheduled
               /\ playheadRef' = playheadRef
        /\ \A f \in decoding :
               DecodeDone(f)
               => /\ Len(NewlyScheduled) = 1
                  /\ NewlyScheduled[1].frame = f.frame
                  /\ NewlyScheduled[1].startAt = Max(currentTime, playheadRef)
                  /\ playheadRef' = NewlyScheduled[1].startAt + f.duration
      ]_vars

\* C13 witness: the first of two frames was dropped by a failed decode and
\* the second one was scheduled, the playhead standing at its end.
C13_Witness ==
    /\ frameCount = 2
    /\ decoding = {}
    /\ Len(scheduled) = 1
    /\ scheduled[1].frame = 2
    /\ playheadRef = scheduled[1].startAt + scheduled[1].duration

\* the sockets of a VoiceBotUI client that are connecting or open
LiveSockets ==
    openSockets \cup (IF starting = "connecting" THEN {socketCount} ELSE {})

\* C19: at any time at most one WebSocket created by the client is open or
\* connecting.
C19_OneConnectionPerClient == Cardinality(LiveSockets) <= 1

-----------------------------------------------------------------------------
(* Claims about the capture pipeline *)

\* C8: on every socket, an audio frame sent after an end-of-turn signal is
\* separated from it by the `start` of a new turn.
C8_NoAudioAfterStop ==
    \A i, j \in 1..Len(vsOut) :
        (i < j /\ vsOut[i].kind = "stop" /\ vsOut[j].kind = "audio"
               /\ vsOut[i].sock = vsOut[j].sock)
        => \E k \in (i + 1)..(j - 1) :
               vsOut[k].kind = "start" /\ vsOut[k].sock = vsOut[i].sock

\* C15: client-side stop is idempotent: on every socket, two end-of-turn
\* messages are separated by the `start` of a new turn, whichever closures
\* of stopListening made the calls.
C15_ClientStopIdempotent ==
    \A i, j \in 1..Len(vsOut) :
        (i < j /\ vsOut[i].kind = "stop" /\ vsOut[j].kind = "stop"
               /\ vsOut[i].sock = vsOut[j].sock)
        => \E k \in (i + 1)..(j - 1) :
               vsOut[k].kind = "start" /\ vsOut[k].sock = vsOut[i].sock

\* the captures whose processor still fires or whose tracks are still live
ActiveCaptures ==
    {p \in 1..Len(vsCaptures) :
        vsCaptures[p].processing \/ vsCaptures[p].tracksLive}

\* no startListening call is suspended and the last stop has run
VsStopped ==
    /\ ~vsIsListening
    /\ vsProcessorRef = 0 /\ vsMediaStreamRef = 0
    /\ \A c \in 1..Len(vsCalls) : vsCalls[c].pc = "done"

\* C20: at most one microphone capture (media stream and processor) is active
\* at any time, overlapping startListening calls included, and once the
\* client has stopped every media stream it acquired has been released.
C20_OneCaptureAtATime ==
    /\ Cardinality(ActiveCaptures) <= 1
    /\ VsStopped => ActiveCaptures = {}

\* C21: the continuation of a startListening call that was suspended when
\* stopListening or the unmount cleanup ran starts no capture, sends no
\* `start` and does not set isListening.
C21_StoppedCallDoesNotResume ==
    [][ \A c \in 1..Len(vsCalls) :
            (VsMicGranted(c) /\ vsCalls[c].stopped)
            => /\ vsCaptures' = vsCaptures
               /\ vsOut' = vsOut
               /\ vsIsListening' = vsIsListening ]_vars

\* C27: stopListening releases the capture in the order processing stage,
\* input device, intermediate audio context; and once it has returned, no
\* audio-process callback is left that sends a frame.
C27_ReleaseOrderOnStop ==
    /\ vsReleaseLog \in
           { <<>>, <<"processor.disconnect", "track.stop",
                     "audioContext.close">> }
    /\ (vsReleaseLog # <<>> /\ vsProcessorRef = 0)
       => \A p \in 1..Len(vsCaptures) :
              ~(vsCaptures[p].processing /\ VsOpen(vsCaptures[p].ws))

\* C29: response audio of the VoiceStreamer client never overlaps: the audio
\* of a message starts no earlier than the end of the audio of the message
\* played before it.
C29_ResponseAudioNeverOverlaps ==
    \A i \in 1..(Len(vspStarted) - 1) :
        vspStarted[i + 1].startAt
            >= vspStarted[i].startAt + vspStarted[i].duration

-----------------------------------------------------------------------------
(* Claims about the turn-based VoiceBotUI client *)

\* C34: the turn-based client never stays in the processing state for ever:
\* whenever isProcessing is true it becomes false again, in every run in
\* which the server answers or the connection closes, also when END_TURN
\* could not be sent.
C34_ProcessingEventuallyEnds == tbIsProcessing ~> ~tbIsProcessing

\* C35: wsRef is null or an open connection, and the close of another
\* connection leaves a reference to an open connection as it is.
C35_WsRefIsNewestOpen ==
    [][ /\ tbWsRef' # 0 => tbSockets'[tbWsRef'] = "OPEN"
        /\ \A s \in 1..Len(tbSockets) :
               (TbSocketClose(s) /\ tbWsRef # s /\ TbOpen(tbWsRef))
               => tbWsRef' = tbWsRef ]_vars

\* C36: isListening and isProcessing are never both true, overlapping
\* startTurn calls included.
C36_ListeningExcludesProcessing == ~(tbIsListening /\ tbIsProcessing)

\* C37: when the connection of the running capture closes while the client
\* is listening, the client stops the capture: the processor is disconnected,
\* the microphone stream is released and isListening becomes false.
C37_CloseWhileListeningStopsCapture ==
    [][ \A s \in 1..Len(tbSockets) :
            ( /\ TbSocketClose(s)
              /\ tbIsListening
              /\ tbProcessorRef # 0
              /\ tbCaptures[tbProcessorRef].ws = s )
            => /\ ~tbIsListening'
               /\ ~tbCaptures'[tbProcessorRef].processing
               /\ ~tbCaptures'[tbProcessorRef].tracksLive ]_vars

-----------------------------------------------------------------------------
(* Claims about the VoiceStreamer chat list *)

\* C31: each assistant reply is attached to the utterance it answers: an
\* assistant message that shows a response shows the response generated for
\* the user message it was inserted with.
C31_ReplyAttachedToItsUtterance ==
    \A i \in 1..Len(chatMessages) :
        (chatMessages[i].role = "assistant" /\ chatMessages[i].status = "done")
        => chatMessages[i].reply = chatMessages[i].utt

\* C33: every assistant message inserted as pending eventually becomes
\* done, in every run in which the server answers each final transcript
\* with an llmResponse or an error.
C33_PendingEventuallyDone ==
    \A i \in 1..(2 * MaxFinals) :
        (Len(chatMessages) >= i /\ chatMessages[i].status = "pending")
        ~> (Len(chatMessages) >= i /\ chatMessages[i].status = "done")

-----------------------------------------------------------------------------
(* Claims about runGeminiLiveTextTurn *)

\* C40: runGeminiLiveTextTurn terminates: once the live session has closed
\* or reported an error, the call eventually returns or throws.
C40_LiveTurnTerminates ==
    (liveSession \in {"errored", "closed"})
        ~> (livePc \in {"returned", "threw"})

====
